---- MODULE Spec2Model ----
(***************************************************************************)
(* A model of the cftp control-channel session driver (crates/cftp).       *)
(*                                                                         *)
(* Strings are sequences of one-character strings, so that trimming, case  *)
(* folding and splitting are computed as the Rust code computes them.      *)
(* Fixed format text of a message ("unknown command: ") is kept as one     *)
(* element of the sequence.  Option<T> is a sequence of length 0 or 1.     *)
(* The crate is modelled with its "tls" feature enabled.                   *)
(***************************************************************************)
EXTENDS Integers, Sequences, FiniteSets, TLC

VARIABLES
    pc,              \* "build" | "greet" | "loop" | "done": position of the driver
                     \* ("env": the envelope is driven directly, see SpecEnv)
    phase,           \* "A" (pre-auth loop) | "B" (PASS awaited) | "C" (command loop)
    security,        \* FtpBuilder.security
    reader,          \* Ftp.reader: "Plain" | "Tls" | "UpgradeBroken"
    acceptor,        \* Ftp.acceptor.is_some()
    allow_plaintext, \* Ftp.allow_plaintext
    io_factory,      \* Ftp.io_factory: None, or Some(id of the listener)
    user,            \* the username captured by the accepted USER (Option)
    to_rename,       \* local to_rename of handle (Option<PathBuf>)
    nread,           \* number of calls of Ftp::read so far
    closed,          \* the client has closed its side: every later read sees EOF
    cmd,             \* what the last call of Ftp::read returned
    ev,              \* what the last step did, in order (reads, writes, handler calls)
    result,          \* "running", or the value handle / build returned
    authCalls,       \* number of calls of handler.authenticate
    accepted         \* a data stream was accepted from io_factory since it was installed

vars == <<pc, phase, security, reader, acceptor, allow_plaintext, io_factory, user,
          to_rename, nread, closed, cmd, ev, result, authCalls, accepted>>

(***************************************************************************)
(* Bounds of the model.                                                    *)
(***************************************************************************)
MaxReads == 5      \* control-channel reads per session
MaxLs == 2         \* entries returned by handler.ls()
MaxEnvOps == 3     \* operations applied to a transport envelope (SpecEnv)

None == <<>>
Some(x) == <<x>>

(***************************************************************************)
(* str helpers of the Rust standard library, as used by the parser.        *)
(***************************************************************************)
LowerCase == <<"a","b","c","d","e","f","g","h","i","j","k","l","m",
               "n","o","p","q","r","s","t","u","v","w","x","y","z">>
UpperCase == <<"A","B","C","D","E","F","G","H","I","J","K","L","M",
               "N","O","P","Q","R","S","T","U","V","W","X","Y","Z">>

to_ascii_uppercase(c) ==
    IF \E i \in 1..Len(LowerCase) : LowerCase[i] = c
    THEN UpperCase[CHOOSE i \in 1..Len(LowerCase) : LowerCase[i] = c]
    ELSE c

eq_ignore_ascii_case(a, b) ==
    /\ Len(a) = Len(b)
    /\ \A i \in 1..Len(a) : to_ascii_uppercase(a[i]) = to_ascii_uppercase(b[i])

to_uppercase(s) == [i \in 1..Len(s) |-> to_ascii_uppercase(s[i])]

is_whitespace(c) == c \in {" ", "\t", "\r", "\n"}

RECURSIVE trim_start(_)
trim_start(s) ==
    IF s # <<>> /\ is_whitespace(Head(s)) THEN trim_start(Tail(s)) ELSE s

RECURSIVE trim_end(_)
trim_end(s) ==
    IF s # <<>> /\ is_whitespace(s[Len(s)])
    THEN trim_end(SubSeq(s, 1, Len(s) - 1))
    ELSE s

trim(s) == trim_end(trim_start(s))

\* s.split_once(' ').unwrap_or((s, ""))
split_once(s) ==
    IF \E i \in 1..Len(s) : s[i] = " "
    THEN LET i == CHOOSE j \in 1..Len(s) :
                      s[j] = " " /\ \A k \in 1..(j - 1) : s[k] # " "
         IN  <<SubSeq(s, 1, i - 1), SubSeq(s, i + 1, Len(s))>>
    ELSE <<s, <<>>>>

\* file.replace("\\", "/")
replace_backslash(s) == [i \in 1..Len(s) |-> IF s[i] = "\\" THEN "/" ELSE s[i]]

(***************************************************************************)
(* command/*.rs: the argument parsers.  A parsed payload is a record       *)
(* [e, s]: e the enum payload (AuthType, TransferType; "" if none), s the  *)
(* string or path payload (<<>> if none).  A parser returns Option of it.  *)
(***************************************************************************)
Payload(e, s) == [e |-> e, s |-> s]

\* command/auth.rs: AuthType::from_str
AuthType_from_str(s) ==
    LET t == trim(s) IN
    IF eq_ignore_ascii_case(t, <<"S","S","L">>) THEN Some("Ssl")
    ELSE IF eq_ignore_ascii_case(t, <<"T","L","S">>) THEN Some("Tls")
    ELSE None

\* command/auth.rs: Auth::from_str
Auth_from_str(s) ==
    LET r == AuthType_from_str(trim(s)) IN
    IF r = None THEN None ELSE Some(Payload(r[1], <<>>))

\* command/type.rs: TransferType::from_str
TransferType_from_str(s) ==
    LET t == to_uppercase(trim(s)) IN
    IF t \in {<<"A">>, <<"A","S","C","I","I">>} THEN Some("Ascii")
    ELSE IF t \in {<<"I">>, <<"B","I","N","A","R","Y">>} THEN Some("Binary")
    ELSE None

\* command/type.rs: Type::from_str
Type_from_str(s) ==
    LET r == TransferType_from_str(trim(s)) IN
    IF r = None THEN None ELSE Some(Payload(r[1], <<>>))

\* command/user.rs, pass.rs, opts.rs, cwd.rs: the trimmed argument
Trimmed_from_str(s) == Some(Payload("", trim(s)))

\* command/retr.rs, stor.rs, rnfr.rs, rnto.rs: the argument with \ replaced by /
Path_from_str(s) == Some(Payload("", replace_backslash(s)))

\* command/impl_command.rs: unit_commands!
Unit_from_str(s) == Some(Payload("", <<>>))

\* command/mod.rs: the impl_command! table, in its order
Keywords == <<
    [name |-> "Auth", kw |-> <<"A","U","T","H">>],
    [name |-> "User", kw |-> <<"U","S","E","R">>],
    [name |-> "Pass", kw |-> <<"P","A","S","S">>],
    [name |-> "Cwd",  kw |-> <<"C","W","D">>],
    [name |-> "Pwd",  kw |-> <<"P","W","D">>],
    [name |-> "Type", kw |-> <<"T","Y","P","E">>],
    [name |-> "Pasv", kw |-> <<"P","A","S","V">>],
    [name |-> "List", kw |-> <<"L","I","S","T">>],
    [name |-> "Retr", kw |-> <<"R","E","T","R">>],
    [name |-> "Syst", kw |-> <<"S","Y","S","T">>],
    [name |-> "Stor", kw |-> <<"S","T","O","R">>],
    [name |-> "Feat", kw |-> <<"F","E","A","T">>],
    [name |-> "Opts", kw |-> <<"O","P","T","S">>],
    [name |-> "Utf8", kw |-> <<"U","T","F","8">>],
    [name |-> "Pbsz", kw |-> <<"P","B","S","Z">>],
    [name |-> "Rnfr", kw |-> <<"R","N","F","R">>],
    [name |-> "Rnto", kw |-> <<"R","N","T","O">>] >>

\* <$name as FromStr>::from_str(params) of the variant called name
Variant_from_str(name, params) ==
    CASE name = "Auth" -> Auth_from_str(params)
      [] name = "Type" -> Type_from_str(params)
      [] name \in {"User", "Pass", "Opts", "Cwd"} -> Trimmed_from_str(params)
      [] name \in {"Retr", "Stor", "Rnfr", "Rnto"} -> Path_from_str(params)
      [] OTHER -> Unit_from_str(params)

\* the Display text of the argument parser's error
Variant_error(name) ==
    CASE name = "Auth" -> <<"invalid authentication type">>
      [] name = "Type" -> <<"invalid transfer type">>
      [] OTHER -> <<>>

\* Result<Command, String>
ParseOk(name, p) == [ok |-> TRUE, name |-> name, e |-> p.e, s |-> p.s, err |-> <<>>]
ParseErr(msg) == [ok |-> FALSE, name |-> "", e |-> "", s |-> <<>>, err |-> msg]

\* command/impl_command.rs, lines 29-34: the variant k of the table matched the
\* verb; data is what its argument parser returned
from_variant(k, data) ==
    IF data = None
    THEN ParseErr(<<"failed to parse ">> \o k.kw \o <<" command: ">> \o Variant_error(k.name))
    ELSE ParseOk(k.name, data[1])

\* command/impl_command.rs, lines 28-37: the first entry of the table, among the
\* entries hits whose keyword is the verb, decides
from_hits(hits, command, params) ==
    IF hits = {}
    THEN ParseErr(<<"unknown command: ">> \o command)
    ELSE from_variant(Keywords[CHOOSE i \in hits : \A j \in hits : i <= j],
                      Variant_from_str(Keywords[CHOOSE i \in hits : \A j \in hits : i <= j].name,
                                       params))

\* command/impl_command.rs, lines 25-37: the trimmed verb and parameters
from_parts(command, params) ==
    from_hits({i \in 1..Len(Keywords) : eq_ignore_ascii_case(command, Keywords[i].kw)},
              command, params)

\* command/impl_command.rs: Command::from_str
Command_from_str(s) == from_parts(trim(split_once(s)[1]), trim(split_once(s)[2]))

(***************************************************************************)
(* code.rs: SimpleReturnCode and FtpResponse.                              *)
(***************************************************************************)
OpeningDataConnection == 150
Ok == 200
ClosingDataConnectionNoTransfer == 225
ClosingDataConnectionSuccessful == 226
UserLoggedIn == 230
AuthenticationSuccessful == 234
NeedPassword == 331
FileActionPending == 350
ServiceNotAvailable == 421
LocalError == 451
CommandNotImplemented == 502
BadSequence == 503
NotLoggedIn == 530
FileUnavailable == 550

\* the discriminants of enum FtpResponse
Features == 211
NameSystemType == 215
ReadyForNewUser == 220
EnteringPassiveMode == 227
FileActionOk == 250
DirectoryCreated == 257

\* An FtpResponse: c is the SimpleReturnCode of a Simple (0 otherwise), msg the
\* Option<String> or String payload, n the listener a 227 advertises (0 otherwise),
\* fs the feature set of a Features ({} otherwise).
Response(variant, c, msg, n) ==
    [variant |-> variant, c |-> c, msg |-> msg, n |-> n, fs |-> {}]
NoResponse == Response("", 0, None, 0)

\* FtpResponse::simple
simple(c) == Response("Simple", c, None, 0)

\* FtpResponse::simple_msg
simple_msg(c, msg) == Response("Simple", c, Some(msg), 0)

\* FtpResponse::code
code(r) ==
    CASE r.variant = "Simple" -> r.c
      [] r.variant = "Features" -> Features
      [] r.variant = "NameSystemType" -> NameSystemType
      [] r.variant = "ReadyForNewUser" -> ReadyForNewUser
      [] r.variant = "EnteringPassiveMode" -> EnteringPassiveMode
      [] r.variant = "FileActionOk" -> FileActionOk
      [] r.variant = "DirectoryCreated" -> DirectoryCreated
      [] OTHER -> 0

(***************************************************************************)
(* code.rs: the bytes of a response.  The bytes are a sequence of          *)
(* one-character strings; a fixed text of the format ("Features:") and a   *)
(* token of a message are kept as one element each.                        *)
(***************************************************************************)
Digit == <<"0", "1", "2", "3", "4", "5", "6", "7", "8", "9">>

\* Display of an unsigned integer: its decimal digits
RECURSIVE to_string(_)
to_string(n) ==
    IF n < 10 THEN <<Digit[n + 1]>>
    ELSE to_string(n \div 10) \o <<Digit[(n % 10) + 1]>>

\* the 16-bit ports
U16 == 0..65535

\* a p1_p2 that splits the port in base 100
p1_p2_decimal(port) == <<(port \div 100) % 256, port % 100>>

\* Port::p1_p2: (self.0 >> 8) as u8 and (self.0 & 0xFF) as u8
p1_p2(port) == <<(port \div 256) % 256, port % 256>>

\* str::replace("\"", "\\\"")
RECURSIVE escape_quotes(_)
escape_quotes(msg) ==
    IF msg = <<>> THEN <<>>
    ELSE (IF Head(msg) = "\"" THEN <<"\\", "\"">> ELSE <<Head(msg)>>)
         \o escape_quotes(Tail(msg))

\* lines 112-114 of to_bytes: one line per feature, in the order the HashSet
\* yields them
RECURSIVE feature_lines(_)
feature_lines(order) ==
    IF order = <<>> THEN <<>>
    ELSE <<" ", Head(order), "\r", "\n">> \o feature_lines(Tail(order))

\* the match of to_bytes, lines 82-119: what follows "code "; ip and port are the
\* payload of an EnteringPassiveMode, order the iteration order of the set of a
\* Features
to_bytes_body(r, ip, port, order) ==
    CASE r.variant \in {"ReadyForNewUser", "NameSystemType"} -> escape_quotes(r.msg)
      [] r.variant = "Simple" /\ r.msg # None -> escape_quotes(r.msg[1])
      [] r.variant = "EnteringPassiveMode" ->
           <<"(">> \o to_string(ip[1]) \o <<",">> \o to_string(ip[2]) \o <<",">>
           \o to_string(ip[3]) \o <<",">> \o to_string(ip[4]) \o <<",">>
           \o to_string(p1_p2(port)[1]) \o <<",">> \o to_string(p1_p2(port)[2]) \o <<")">>
      [] r.variant = "FileActionOk" /\ r.msg # None ->
           <<"\"">> \o escape_quotes(r.msg[1]) \o <<"\"">>
      [] r.variant = "DirectoryCreated" -> <<"\"">> \o escape_quotes(r.msg) \o <<"\"">>
      [] r.variant = "Features" ->
           <<"Features:", "\r", "\n">> \o feature_lines(order)
           \o to_string(code(r)) \o <<" End">>
      [] OTHER -> <<>>

\* a to_bytes that ends a response without a message after the code
to_bytes_bare(r, ip, port, order) ==
    IF to_bytes_body(r, ip, port, order) = <<>>
    THEN to_string(code(r))
    ELSE to_string(code(r)) \o <<" ">> \o to_bytes_body(r, ip, port, order) \o <<"\r", "\n">>

\* FtpResponse::to_bytes
to_bytes(r, ip, port, order) ==
    to_string(code(r)) \o <<" ">> \o to_bytes_body(r, ip, port, order) \o <<"\r", "\n">>

(***************************************************************************)
(* tls.rs: MaybeTls.  inner is what the underlying stream (or TLS session) *)
(* would answer: TRUE for Ok, FALSE for an I/O error.                      *)
(***************************************************************************)
\* a poll_read without the UpgradeBroken arm: it hands every read to the stream
poll_read_through(tr, inner) == inner

\* MaybeTls::poll_read
poll_read(tr, inner) == IF tr = "UpgradeBroken" THEN FALSE ELSE inner

\* MaybeTls::poll_write
poll_write(tr, inner) == IF tr = "UpgradeBroken" THEN FALSE ELSE inner

\* MaybeTls::poll_flush
poll_flush(tr, inner) == IF tr = "UpgradeBroken" THEN FALSE ELSE inner

\* MaybeTls::poll_close
poll_close(tr, inner) == IF tr = "UpgradeBroken" THEN FALSE ELSE inner

(***************************************************************************)
(* The events of a step.  k: the kind; r: the response of a control write; *)
(* n: a number (the code written, the listener, the entry); s, t: string   *)
(* arguments; on: the transport state a control read or write went         *)
(* through; o: the outcome.                                                *)
(***************************************************************************)
Ev(k, n, s, t, o) ==
    [k |-> k, r |-> NoResponse, n |-> n, s |-> s, t |-> t, on |-> "", o |-> o]

\* Ftp::write_bytes: write_all, then flush
write_bytes(tr, inner) == poll_write(tr, inner) /\ poll_flush(tr, inner)

\* Ftp::write: the event of writing response r; it is "send" when the bytes were
\* written and flushed, "send_err" when the transport failed
write(tr, r, inner) ==
    [k |-> IF write_bytes(tr, inner) THEN "send" ELSE "send_err",
     r |-> r, n |-> code(r), s |-> <<>>, t |-> <<>>, on |-> tr, o |-> ""]

(***************************************************************************)
(* Ftp::read.  An input is what the client's byte stream holds next:       *)
(*   "line":    the bytes buf followed by CRLF                             *)
(*   "eof":     the bytes buf followed by the end of the stream            *)
(*   "ioerr":   the transport fails                                        *)
(*   "badutf8": a line that is not UTF-8                                   *)
(***************************************************************************)
Input(kind, buf) == [kind |-> kind, buf |-> buf]

CommandRead(t, p) == [t |-> t, cmd |-> p]
NoCommand == CommandRead("", ParseErr(<<>>))

(***************************************************************************)
(* The client: the lines it may send, and what a read may meet.            *)
(***************************************************************************)
Lines ==
    { <<"A","U","T","H"," ","T","L","S">>,
      <<"A","U","T","H"," ","S","S","L">>,
      <<"A","U","T","H"," ","X","Y","Z">>,
      <<"U","S","E","R"," ","a","l">>,
      <<"P","A","S","S"," ","p","w">>,
      <<"C","W","D"," ","d">>,
      <<"P","W","D">>,
      <<"p","w","d">>,
      <<"T","Y","P","E"," ","I">>,
      <<"T","Y","P","E"," ","Q">>,
      <<"P","A","S","V">>,
      <<"L","I","S","T">>,
      <<"R","E","T","R"," ","a">>,
      <<"S","T","O","R"," ","a">>,
      <<"S","Y","S","T">>,
      <<"F","E","A","T">>,
      <<"O","P","T","S"," ","x">>,
      <<"U","T","F","8">>,
      <<"P","B","S","Z"," ","0">>,
      <<"R","N","F","R"," ","a">>,
      <<"R","N","F","R"," ","b">>,
      <<"R","N","T","O"," ","c">>,
      <<"N","O","O","P">>,
      <<>>,
      <<" ">> }

\* a line cut short by the end of the stream
PartialLines == { <<>>, <<"P","W","D">> }

Inputs(cl) ==
    IF cl THEN { Input("eof", <<>>) }
    ELSE { Input("line", l) : l \in Lines }
         \cup { Input("eof", l) : l \in PartialLines }
         \cup { Input("ioerr", <<>>), Input("badutf8", <<>>) }

\* Command::from_str of every line the client may send, computed once
ParsedLines == [b \in Lines \cup PartialLines |-> Command_from_str(b)]

\* command_str.parse(), lines 570-571 of ftp.rs
parse(command_str) ==
    IF command_str \in DOMAIN ParsedLines
    THEN ParsedLines[command_str]
    ELSE Command_from_str(command_str)

\* a read that hands a blank line to the parser
read_parsing_blank(tr, inp) ==
    IF ~poll_read(tr, inp.kind # "ioerr") THEN CommandRead("Io", ParseErr(<<>>))
    ELSE IF inp.kind = "badutf8" THEN CommandRead("Io", ParseErr(<<>>))
    ELSE LET p == parse(inp.buf) IN
         IF p.ok THEN CommandRead("Command", p) ELSE CommandRead("Parse", p)

\* Ftp::read, lines 544-574 (tr: the transport it reads from)
read(tr, inp) ==
    IF ~poll_read(tr, inp.kind # "ioerr") THEN CommandRead("Io", ParseErr(<<>>))
    ELSE IF inp.kind = "badutf8" THEN CommandRead("Io", ParseErr(<<>>))
    ELSE IF trim(inp.buf) = <<>> THEN CommandRead("Disconnect", ParseErr(<<>>))
    ELSE LET p == parse(inp.buf) IN
         IF p.ok THEN CommandRead("Command", p) ELSE CommandRead("Parse", p)

(***************************************************************************)
(* builder.rs: the security configurations a builder can hold.             *)
(***************************************************************************)
NoEncryption == [tls |-> FALSE, implicit |-> FALSE, allow_plaintext |-> FALSE]
Encryption(implicit, allow) == [tls |-> TRUE, implicit |-> implicit, allow_plaintext |-> allow]

Securities == {NoEncryption} \cup {Encryption(i, a) : i \in BOOLEAN, a \in BOOLEAN}

Init ==
    /\ pc = "build"
    /\ phase = "A"
    /\ security \in Securities
    /\ reader = "Unbuilt"
    /\ acceptor = FALSE
    /\ allow_plaintext = FALSE
    /\ io_factory = None
    /\ user = None
    /\ to_rename = None
    /\ nread = 0
    /\ closed = FALSE
    /\ cmd = NoCommand
    /\ ev = <<>>
    /\ result = "running"
    /\ authCalls = 0
    /\ accepted = FALSE

\* a constructor that falls back to the plain stream when the implicit handshake
\* fails
new_from_builder_fallback(sec, hs) ==
    IF ~sec.tls
    THEN [ok |-> TRUE, reader |-> "Plain", acceptor |-> FALSE, allow_plaintext |-> TRUE]
    ELSE IF sec.implicit
    THEN [ok |-> TRUE, reader |-> IF hs THEN "Tls" ELSE "Plain", acceptor |-> TRUE,
          allow_plaintext |-> sec.allow_plaintext]
    ELSE [ok |-> TRUE, reader |-> "Plain", acceptor |-> TRUE,
          allow_plaintext |-> sec.allow_plaintext]

\* Ftp::new_from_builder and Ftp::new_insecure: the fields of the Ftp built, or the
\* error of the implicit handshake (hs: the handshake succeeds)
new_from_builder(sec, hs) ==
    IF ~sec.tls
    THEN [ok |-> TRUE, reader |-> "Plain", acceptor |-> FALSE, allow_plaintext |-> TRUE]
    ELSE IF sec.implicit
    THEN IF hs
         THEN [ok |-> TRUE, reader |-> "Tls", acceptor |-> TRUE,
               allow_plaintext |-> sec.allow_plaintext]
         ELSE [ok |-> FALSE, reader |-> "Unbuilt", acceptor |-> FALSE,
               allow_plaintext |-> FALSE]
    ELSE [ok |-> TRUE, reader |-> "Plain", acceptor |-> TRUE,
          allow_plaintext |-> sec.allow_plaintext]

\* FtpBuilder::build
Build ==
    /\ pc = "build"
    /\ \E hs \in BOOLEAN :
         LET b == new_from_builder(security, hs) IN
         /\ reader' = b.reader
         /\ acceptor' = b.acceptor
         /\ allow_plaintext' = b.allow_plaintext
         /\ pc' = IF b.ok THEN "greet" ELSE "done"
         /\ result' = IF b.ok THEN "running" ELSE "BuildIo"
         /\ ev' = IF security.tls /\ security.implicit
                  THEN <<Ev("accept_tls", 0, <<>>, <<>>, IF hs THEN "ok" ELSE "err")>>
                  ELSE <<>>
    /\ UNCHANGED <<phase, security, io_factory, user, to_rename, nread, closed, cmd,
                   authCalls, accepted>>

(***************************************************************************)
(* Ftp::handle, step by step: a step runs from one read of the control     *)
(* channel to the next.                                                    *)
(***************************************************************************)
\* the step goes on to the next self.read(), unless its last control write failed
\* (`.await?`); ph is the phase the step leaves the session in
Continue(events, ph) ==
    /\ ev' = events
    /\ phase' = ph
    /\ pc' = IF events[Len(events)].k = "send_err" THEN "done" ELSE "loop"
    /\ result' = IF events[Len(events)].k = "send_err" THEN "Io" ELSE "running"

\* a reply that is not followed by `return Ok(())`: the loop goes on
ReplyAndContinue(events) ==
    /\ ev' = events
    /\ phase' = phase
    /\ pc' = IF events[Len(events)].k = "send_err" THEN "done" ELSE "loop"
    /\ result' = IF events[Len(events)].k = "send_err" THEN "Io" ELSE "running"

\* the step writes its reply and returns Ok(()), unless the write failed
ReplyAndReturn(events) ==
    /\ ev' = events
    /\ phase' = phase
    /\ pc' = "done"
    /\ result' = IF events[Len(events)].k = "send_err" THEN "Io" ELSE "Ok"

\* the step returns res
Return(events, res) ==
    /\ ev' = events
    /\ phase' = phase
    /\ pc' = "done"
    /\ result' = res

\* handle, lines 128-129: the greeting
Greet ==
    /\ pc = "greet"
    /\ \E w \in BOOLEAN :
         Continue(<<Ev("welcome", 0, <<>>, <<>>, ""),
                    write(reader, Response("ReadyForNewUser", 0, <<"cftp by nullptr">>, 0), w)>>,
                  "A")
    /\ UNCHANGED <<security, reader, acceptor, allow_plaintext, io_factory, user,
                   to_rename, nread, closed, cmd, authCalls, accepted>>

\* self.read(): the next input is consumed and parsed
ReadNext(inp) ==
    /\ pc = "loop"
    /\ nread < MaxReads
    /\ nread' = nread + 1
    /\ closed' = (closed \/ inp.kind = "eof")
    /\ cmd' = read(reader, inp)

ReadEv(inp) ==
    [k |-> "read", r |-> NoResponse, n |-> nread + 1, s |-> inp.buf, t |-> <<>>,
     on |-> reader, o |-> read(reader, inp).t]

\* an upgrade_tls that runs a new handshake on a transport that is already Tls
upgrade_tls_again(tr, acc, hs) ==
    CASE tr = "Plain" ->
           IF acc
           THEN IF hs
                THEN [reader |-> "Tls", res |-> "Ok", via |-> <<"UpgradeBroken", "Tls">>]
                ELSE [reader |-> "UpgradeBroken", res |-> "TlsUpgrade(Io)",
                      via |-> <<"UpgradeBroken">>]
           ELSE [reader |-> "UpgradeBroken", res |-> "TlsUpgrade(Unconfigured)",
                 via |-> <<"UpgradeBroken">>]
      [] tr = "Tls" ->
           IF hs
           THEN [reader |-> "Tls", res |-> "Ok", via |-> <<"UpgradeBroken", "Tls">>]
           ELSE [reader |-> "UpgradeBroken", res |-> "TlsUpgrade(Io)",
                 via |-> <<"UpgradeBroken">>]
      [] OTHER -> [reader |-> tr, res |-> "TlsUpgrade(PreviousFailure)", via |-> <<>>]

\* an upgrade_tls that puts the plain stream back when the handshake fails
upgrade_tls_restoring(tr, acc, hs) ==
    CASE tr = "Plain" ->
           IF acc
           THEN IF hs
                THEN [reader |-> "Tls", res |-> "Ok", via |-> <<"UpgradeBroken", "Tls">>]
                ELSE [reader |-> "Plain", res |-> "TlsUpgrade(Io)",
                      via |-> <<"UpgradeBroken", "Plain">>]
           ELSE [reader |-> "UpgradeBroken", res |-> "TlsUpgrade(Unconfigured)",
                 via |-> <<"UpgradeBroken">>]
      [] tr = "Tls" -> [reader |-> "Tls", res |-> "Ok", via |-> <<>>]
      [] OTHER -> [reader |-> tr, res |-> "TlsUpgrade(PreviousFailure)", via |-> <<>>]

\* Ftp::upgrade_tls: the transport it leaves and what it returns (hs: the handshake
\* succeeds); via lists the states the transport is given on the way
upgrade_tls(tr, acc, hs) ==
    CASE tr = "Plain" ->
           IF acc
           THEN IF hs
                THEN [reader |-> "Tls", res |-> "Ok", via |-> <<"UpgradeBroken", "Tls">>]
                ELSE [reader |-> "UpgradeBroken", res |-> "TlsUpgrade(Io)",
                      via |-> <<"UpgradeBroken">>]
           ELSE [reader |-> "UpgradeBroken", res |-> "TlsUpgrade(Unconfigured)",
                 via |-> <<"UpgradeBroken">>]
      [] tr = "Tls" -> [reader |-> "Tls", res |-> "Ok", via |-> <<>>]
      [] OTHER -> [reader |-> tr, res |-> "TlsUpgrade(PreviousFailure)", via |-> <<>>]

\* the pre-authentication match without the guard of lines 181-183 on USER
PhaseAArm_no_tls_gate(c, tr, acc, allow) ==
    IF c.name = "Auth" /\ c.e = "Tls" /\ acc THEN "AuthTls"
    ELSE IF c.name = "Auth" THEN "AuthUnsupported"
    ELSE IF c.name = "User" THEN "User"
    ELSE IF c.name = "Opts" THEN "Opts"
    ELSE "Other"

\* handle, lines 140-212: the arm of the pre-authentication match that takes command c
PhaseAArm(c, tr, acc, allow) ==
    IF c.name = "Auth" /\ c.e = "Tls" /\ acc THEN "AuthTls"
    ELSE IF c.name = "Auth" THEN "AuthUnsupported"
    ELSE IF c.name = "User" /\ tr # "Tls" /\ ~allow THEN "UserRefused"
    ELSE IF c.name = "User" THEN "User"
    ELSE IF c.name = "Opts" THEN "Opts"
    ELSE "Other"

\* the arm of the current session state
Arm(c) == PhaseAArm(c, reader, acceptor, allow_plaintext)

(***************************************************************************)
(* Phase A: the pre-authentication loop (handle, lines 131-213).           *)
(***************************************************************************)
\* lines 134-137: EOF or an empty line
ADisconnect ==
    /\ phase = "A"
    /\ \E inp \in Inputs(closed) :
         /\ ReadNext(inp)
         /\ cmd'.t = "Disconnect"
         /\ Return(<<ReadEv(inp)>>, "Ok")
    /\ UNCHANGED <<security, reader, acceptor, allow_plaintext, io_factory, user,
                   to_rename, authCalls, accepted>>

\* line 132: `self.read().await?` propagates an I/O error and a parse error alike
AReadError ==
    /\ phase = "A"
    /\ \E inp \in Inputs(closed) :
         /\ ReadNext(inp)
         /\ cmd'.t \in {"Io", "Parse"}
         /\ Return(<<ReadEv(inp)>>, IF cmd'.t = "Io" THEN "Read(Io)" ELSE "Read(Parse)")
    /\ UNCHANGED <<security, reader, acceptor, allow_plaintext, io_factory, user,
                   to_rename, authCalls, accepted>>

\* an AUTH TLS that goes back to the plain stream and reads on when the handshake fails
AAuthTls_falling_back ==
    /\ phase = "A"
    /\ \E inp \in Inputs(closed) :
         /\ ReadNext(inp)
         /\ cmd'.t = "Command"
         /\ Arm(cmd'.cmd) = "AuthTls"
         /\ \E w \in BOOLEAN, hs \in BOOLEAN :
              /\ LET w234 == write(reader, simple_msg(AuthenticationSuccessful,
                                                      <<"Starting TLS negotiation.">>), w)
                     up == upgrade_tls(reader, acceptor, hs)
                     upEv == Ev("upgrade_tls", 0, up.via, <<>>, up.res)
                 IN  IF w234.k = "send_err"
                     THEN /\ reader' = reader
                          /\ Return(<<ReadEv(inp), w234>>, "Io")
                     ELSE /\ reader' = IF up.res = "Ok" THEN up.reader ELSE "Plain"
                          /\ Continue(<<ReadEv(inp), w234, upEv>>, "A")
    /\ UNCHANGED <<security, acceptor, allow_plaintext, io_factory, user,
                   to_rename, authCalls, accepted>>

\* lines 142-156: AUTH TLS with an acceptor
AAuthTls ==
    /\ phase = "A"
    /\ \E inp \in Inputs(closed) :
         /\ ReadNext(inp)
         /\ cmd'.t = "Command"
         /\ Arm(cmd'.cmd) = "AuthTls"
         /\ \E w \in BOOLEAN, hs \in BOOLEAN :
              /\ LET w234 == write(reader, simple_msg(AuthenticationSuccessful,
                                                      <<"Starting TLS negotiation.">>), w)
                     up == upgrade_tls(reader, acceptor, hs)
                     upEv == Ev("upgrade_tls", 0, up.via, <<>>, up.res)
                 IN  IF w234.k = "send_err"
                     THEN /\ reader' = reader
                          /\ Return(<<ReadEv(inp), w234>>, "Io")
                     ELSE /\ reader' = up.reader
                          /\ IF up.res = "Ok"
                             THEN Continue(<<ReadEv(inp), w234, upEv>>, "A")
                             ELSE Return(<<ReadEv(inp), w234, upEv>>, up.res)
    /\ UNCHANGED <<security, acceptor, allow_plaintext, io_factory, user,
                   to_rename, authCalls, accepted>>

\* lines 159-167: any other AUTH
AAuthUnsupported ==
    /\ phase = "A"
    /\ \E inp \in Inputs(closed) :
         /\ ReadNext(inp)
         /\ cmd'.t = "Command"
         /\ Arm(cmd'.cmd) = "AuthUnsupported"
         /\ \E w \in BOOLEAN :
              /\ Continue(<<ReadEv(inp),
                            write(reader, simple_msg(CommandNotImplemented,
                                                     <<"unsupported AUTH type">>), w)>>, "A")
    /\ UNCHANGED <<security, reader, acceptor, allow_plaintext, io_factory, user,
                   to_rename, authCalls, accepted>>

\* a refusal that ends the session, as the catch-all arm does
AUserRefused_terminating ==
    /\ phase = "A"
    /\ \E inp \in Inputs(closed) :
         /\ ReadNext(inp)
         /\ cmd'.t = "Command"
         /\ Arm(cmd'.cmd) = "UserRefused"
         /\ \E w \in BOOLEAN :
              /\ ReplyAndReturn(<<ReadEv(inp),
                                  write(reader, simple_msg(NotLoggedIn,
                                        <<"Please use AUTH TLS before sending USER command.">>), w)>>)
    /\ UNCHANGED <<security, reader, acceptor, allow_plaintext, io_factory, user,
                   to_rename, authCalls, accepted>>

\* lines 181-192: USER refused on a transport that is not Tls
AUserRefused ==
    /\ phase = "A"
    /\ \E inp \in Inputs(closed) :
         /\ ReadNext(inp)
         /\ cmd'.t = "Command"
         /\ Arm(cmd'.cmd) = "UserRefused"
         /\ \E w \in BOOLEAN :
              /\ Continue(<<ReadEv(inp),
                            write(reader, simple_msg(NotLoggedIn,
                                  <<"Please use AUTH TLS before sending USER command.">>), w)>>,
                          "A")
    /\ UNCHANGED <<security, reader, acceptor, allow_plaintext, io_factory, user,
                   to_rename, authCalls, accepted>>

\* a USER arm that forgets the name it was given
AUser_forgetting ==
    /\ phase = "A"
    /\ \E inp \in Inputs(closed) :
         /\ ReadNext(inp)
         /\ cmd'.t = "Command"
         /\ Arm(cmd'.cmd) = "User"
         /\ \E w \in BOOLEAN :
              /\ user' = Some(<<>>)
              /\ Continue(<<ReadEv(inp), write(reader, simple(NeedPassword), w)>>, "B")
    /\ UNCHANGED <<security, reader, acceptor, allow_plaintext, io_factory,
                   to_rename, authCalls, accepted>>

\* lines 194-197 and 215-216: USER accepted, then 331
AUser ==
    /\ phase = "A"
    /\ \E inp \in Inputs(closed) :
         /\ ReadNext(inp)
         /\ cmd'.t = "Command"
         /\ Arm(cmd'.cmd) = "User"
         /\ \E w \in BOOLEAN :
              /\ user' = Some(cmd'.cmd.s)
              /\ Continue(<<ReadEv(inp), write(reader, simple(NeedPassword), w)>>, "B")
    /\ UNCHANGED <<security, reader, acceptor, allow_plaintext, io_factory,
                   to_rename, authCalls, accepted>>

\* lines 199-204: OPTS
AOpts ==
    /\ phase = "A"
    /\ \E inp \in Inputs(closed) :
         /\ ReadNext(inp)
         /\ cmd'.t = "Command"
         /\ Arm(cmd'.cmd) = "Opts"
         /\ \E w \in BOOLEAN :
              /\ Continue(<<ReadEv(inp), write(reader, simple(Ok), w)>>, "A")
    /\ UNCHANGED <<security, reader, acceptor, allow_plaintext, io_factory, user,
                   to_rename, authCalls, accepted>>

\* lines 206-211: any other command
AOther ==
    /\ phase = "A"
    /\ \E inp \in Inputs(closed) :
         /\ ReadNext(inp)
         /\ cmd'.t = "Command"
         /\ Arm(cmd'.cmd) = "Other"
         /\ \E w \in BOOLEAN :
              /\ ReplyAndReturn(<<ReadEv(inp), write(reader, simple(BadSequence), w)>>)
    /\ UNCHANGED <<security, reader, acceptor, allow_plaintext, io_factory, user,
                   to_rename, authCalls, accepted>>

(***************************************************************************)
(* Phase B: the password (handle, lines 218-240).                          *)
(***************************************************************************)
\* line 218: `self.read().await?`
BReadError ==
    /\ phase = "B"
    /\ \E inp \in Inputs(closed) :
         /\ ReadNext(inp)
         /\ cmd'.t \in {"Io", "Parse"}
         /\ Return(<<ReadEv(inp)>>, IF cmd'.t = "Io" THEN "Read(Io)" ELSE "Read(Parse)")
    /\ UNCHANGED <<security, reader, acceptor, allow_plaintext, io_factory, user,
                   to_rename, authCalls, accepted>>

\* a pattern that takes the argument of any command for the password
IsPass_any(cr) == cr.t = "Command"

\* line 218: the refutable pattern CommandRead::Command(Command::Pass(pass))
IsPass(cr) == cr.t = "Command" /\ cr.cmd.name = "Pass"

\* lines 218-223: what was read is not a PASS
BNotPass ==
    /\ phase = "B"
    /\ \E inp \in Inputs(closed) :
         /\ ReadNext(inp)
         /\ cmd'.t \in {"Command", "Disconnect"}
         /\ ~IsPass(cmd')
         /\ \E w \in BOOLEAN :
              /\ ReplyAndReturn(<<ReadEv(inp), write(reader, simple(BadSequence), w)>>)
    /\ UNCHANGED <<security, reader, acceptor, allow_plaintext, io_factory, user,
                   to_rename, authCalls, accepted>>

\* a login that lets the session in whatever authenticate answered
AfterAuthenticate_lenient(a, tr, w) ==
    CASE a = "err" -> [evs |-> <<>>, end |-> "Handler"]
      [] OTHER -> [evs |-> <<write(tr, simple(UserLoggedIn), w)>>, end |-> "continue"]

\* lines 225-240: what the session does with the answer a of handler.authenticate
\* ("true", "false" or "err"): the events after the call and how the step ends
AfterAuthenticate(a, tr, w) ==
    CASE a = "err" -> [evs |-> <<>>, end |-> "Handler"]
      [] a = "false" -> [evs |-> <<write(tr, simple(NotLoggedIn), w)>>, end |-> "return"]
      [] OTHER -> [evs |-> <<write(tr, simple(UserLoggedIn), w)>>, end |-> "continue"]

\* lines 218-240: PASS, authenticate, 230 or 530
BPass ==
    /\ phase = "B"
    /\ \E inp \in Inputs(closed) :
         /\ ReadNext(inp)
         /\ IsPass(cmd')
         /\ \E w \in BOOLEAN, a \in {"true", "false", "err"} :
              /\ authCalls' = authCalls + 1
              /\ LET call == Ev("authenticate", 0, user[1], cmd'.cmd.s, a)
                     after == AfterAuthenticate(a, reader, w)
                     evs == <<ReadEv(inp), call>> \o after.evs
                 IN  CASE after.end = "continue" -> Continue(evs, "C")
                       [] after.end = "return" -> ReplyAndReturn(evs)
                       [] OTHER -> Return(evs, after.end)
    /\ to_rename' = None
    /\ UNCHANGED <<security, reader, acceptor, allow_plaintext, io_factory, user,
                   accepted>>

(***************************************************************************)
(* Phase C: the command loop (handle, lines 242-501).                      *)
(***************************************************************************)
\* the step reads a command of the given names in the command loop
ReadCommand(inp, names) ==
    /\ phase = "C"
    /\ ReadNext(inp)
    /\ cmd'.t = "Command"
    /\ cmd'.cmd.name \in names

\* a command loop that goes on reading after the end of the stream
CDisconnect_reading_on ==
    /\ phase = "C"
    /\ \E inp \in Inputs(closed) :
         /\ ReadNext(inp)
         /\ cmd'.t = "Disconnect"
         /\ Continue(<<ReadEv(inp)>>, "C")
    /\ UNCHANGED <<security, reader, acceptor, allow_plaintext, io_factory, user,
                   to_rename, authCalls, accepted>>

\* lines 245-248: EOF or an empty line
CDisconnect ==
    /\ phase = "C"
    /\ \E inp \in Inputs(closed) :
         /\ ReadNext(inp)
         /\ cmd'.t = "Disconnect"
         /\ Return(<<ReadEv(inp)>>, "Ok")
    /\ UNCHANGED <<security, reader, acceptor, allow_plaintext, io_factory, user,
                   to_rename, authCalls, accepted>>

\* a parse-error arm that answers with a bare 502, without the parser's message
CParseError_bare ==
    /\ phase = "C"
    /\ \E inp \in Inputs(closed) :
         /\ ReadNext(inp)
         /\ cmd'.t = "Parse"
         /\ \E w \in BOOLEAN :
              /\ Continue(<<ReadEv(inp), write(reader, simple(CommandNotImplemented), w)>>,
                          "C")
    /\ UNCHANGED <<security, reader, acceptor, allow_plaintext, io_factory, user,
                   to_rename, authCalls, accepted>>

\* lines 249-257: a line that does not parse
CParseError ==
    /\ phase = "C"
    /\ \E inp \in Inputs(closed) :
         /\ ReadNext(inp)
         /\ cmd'.t = "Parse"
         /\ \E w \in BOOLEAN :
              /\ Continue(<<ReadEv(inp),
                            write(reader, simple_msg(CommandNotImplemented, cmd'.cmd.err), w)>>,
                          "C")
    /\ UNCHANGED <<security, reader, acceptor, allow_plaintext, io_factory, user,
                   to_rename, authCalls, accepted>>

\* lines 258-261: an I/O error of the read breaks the loop; handle returns Ok(())
CReadIoError ==
    /\ phase = "C"
    /\ \E inp \in Inputs(closed) :
         /\ ReadNext(inp)
         /\ cmd'.t = "Io"
         /\ Return(<<ReadEv(inp)>>, "Ok")
    /\ UNCHANGED <<security, reader, acceptor, allow_plaintext, io_factory, user,
                   to_rename, authCalls, accepted>>

\* what handler.cwd() may answer
CwdAnswers == { None, Some(<<"d","\\","e">>) }

\* a PWD that drops the pending rename source
CPwd_clearing ==
    /\ \E inp \in Inputs(closed) :
         /\ ReadCommand(inp, {"Pwd"})
         /\ \E w \in BOOLEAN, path \in CwdAnswers :
              /\ LET call == Ev("cwd", 0, <<>>, <<>>, IF path = None THEN "none" ELSE "some")
                     reply == IF path # None
                              THEN Response("DirectoryCreated", 0, replace_backslash(path[1]), 0)
                              ELSE simple(FileUnavailable)
                 IN  Continue(<<ReadEv(inp), call, write(reader, reply, w)>>, "C")
    /\ to_rename' = None
    /\ UNCHANGED <<security, reader, acceptor, allow_plaintext, io_factory, user,
                   authCalls, accepted>>

\* lines 267-277: PWD
CPwd ==
    /\ \E inp \in Inputs(closed) :
         /\ ReadCommand(inp, {"Pwd"})
         /\ \E w \in BOOLEAN, path \in CwdAnswers :
              /\ LET call == Ev("cwd", 0, <<>>, <<>>, IF path = None THEN "none" ELSE "some")
                     reply == IF path # None
                              THEN Response("DirectoryCreated", 0, replace_backslash(path[1]), 0)
                              ELSE simple(FileUnavailable)
                 IN  Continue(<<ReadEv(inp), call, write(reader, reply, w)>>, "C")
    /\ UNCHANGED <<security, reader, acceptor, allow_plaintext, io_factory, user,
                   to_rename, authCalls, accepted>>

\* lines 279-288: CWD
CCwd ==
    /\ \E inp \in Inputs(closed) :
         /\ ReadCommand(inp, {"Cwd"})
         /\ \E w \in BOOLEAN, done \in BOOLEAN :
              /\ LET call == Ev("set_cwd", 0, cmd'.cmd.s, <<>>, IF done THEN "true" ELSE "false")
                     reply == IF ~done THEN simple(FileUnavailable) ELSE simple(Ok)
                 IN  Continue(<<ReadEv(inp), call, write(reader, reply, w)>>, "C")
    /\ UNCHANGED <<security, reader, acceptor, allow_plaintext, io_factory, user,
                   to_rename, authCalls, accepted>>

\* a TYPE that drops the passive factory
CType_resetting ==
    /\ \E inp \in Inputs(closed) :
         /\ ReadCommand(inp, {"Type"})
         /\ \E w \in BOOLEAN :
              /\ Continue(<<ReadEv(inp), write(reader, simple(Ok), w)>>, "C")
    /\ io_factory' = None
    /\ UNCHANGED <<security, reader, acceptor, allow_plaintext, user,
                   to_rename, authCalls, accepted>>

\* lines 290-294: TYPE
CType ==
    /\ \E inp \in Inputs(closed) :
         /\ ReadCommand(inp, {"Type"})
         /\ \E w \in BOOLEAN :
              /\ Continue(<<ReadEv(inp), write(reader, simple(Ok), w)>>, "C")
    /\ UNCHANGED <<security, reader, acceptor, allow_plaintext, io_factory, user,
                   to_rename, authCalls, accepted>>

\* handler.rs: PassiveConn::to_reply; addr is "v4" or "v6", n the listener
to_reply(addr, n) ==
    IF addr = "v4" THEN Some(Response("EnteringPassiveMode", 0, None, n)) ELSE None

\* a PASV that keeps the coordinator of an earlier PASV when there is one
pasv_keeping_first(tr, fac, pa, n, w) ==
    IF pa = "err"
    THEN [evs |-> <<write(tr, simple(CommandNotImplemented), w)>>, factory |-> fac]
    ELSE LET reply == to_reply(pa, n) IN
         IF reply # None
         THEN LET wr == write(tr, reply[1], w) IN
              [evs |-> <<wr>>,
               factory |-> IF wr.k = "send" /\ fac = None THEN Some(n) ELSE fac]
         ELSE [evs |-> <<write(tr, simple(CommandNotImplemented), w)>>, factory |-> fac]

\* a PASV that installs the coordinator whatever reply it could build
pasv_installing(tr, fac, pa, n, w) ==
    IF pa = "err"
    THEN [evs |-> <<write(tr, simple(CommandNotImplemented), w)>>, factory |-> fac]
    ELSE LET reply == to_reply(pa, n) IN
         IF reply # None
         THEN LET wr == write(tr, reply[1], w) IN
              [evs |-> <<wr>>, factory |-> IF wr.k = "send" THEN Some(n) ELSE fac]
         ELSE [evs |-> <<write(tr, simple(CommandNotImplemented), w)>>, factory |-> Some(n)]

\* lines 296-326: PASV.  pa is what handler.passive_conn() answers: "err", or the
\* address family of the listener it bound; n names that listener.  Gives the events
\* after the call and the io_factory left.
pasv(tr, fac, pa, n, w) ==
    IF pa = "err"
    THEN [evs |-> <<write(tr, simple(CommandNotImplemented), w)>>, factory |-> fac]
    ELSE LET reply == to_reply(pa, n) IN
         IF reply # None
         THEN LET wr == write(tr, reply[1], w) IN
              [evs |-> <<wr>>, factory |-> IF wr.k = "send" THEN Some(n) ELSE fac]
         ELSE [evs |-> <<write(tr, simple(CommandNotImplemented), w)>>, factory |-> fac]

CPasv ==
    /\ \E inp \in Inputs(closed) :
         /\ ReadCommand(inp, {"Pasv"})
         /\ \E w \in BOOLEAN, pa \in {"err", "v4", "v6"} :
              /\ LET call == Ev("passive_conn", nread + 1, <<>>, <<>>, pa)
                     p == pasv(reader, io_factory, pa, nread + 1, w)
                 IN  /\ io_factory' = p.factory
                     /\ accepted' = IF p.factory = io_factory THEN accepted ELSE FALSE
                     /\ Continue(<<ReadEv(inp), call>> \o p.evs, "C")
    /\ UNCHANGED <<security, reader, acceptor, allow_plaintext, user,
                   to_rename, authCalls>>

\* a passive_conn that accepts the data stream first and writes 150 afterwards
passive_conn_accept_first(tr, fac, w, acc) ==
    LET w150 == write(tr, simple(OpeningDataConnection), w) IN
    IF fac = None THEN [evs |-> <<w150>>, stream |-> None, factory |-> fac]
    ELSE [evs |-> <<Ev("create_io", fac[1], <<>>, <<>>, IF acc THEN "some" ELSE "none"),
                    w150>>,
          stream |-> IF acc /\ w150.k = "send" THEN Some(fac[1]) ELSE None,
          factory |-> fac]

\* Ftp::passive_conn, lines 506-511: 150, then create_io on the installed factory
\* (acc: a client connects and the accept succeeds).  Gives the events, the data
\* stream (Option of the listener it came from) and the io_factory left.
passive_conn(tr, fac, w, acc) ==
    LET w150 == write(tr, simple(OpeningDataConnection), w) IN
    IF w150.k = "send_err" THEN [evs |-> <<w150>>, stream |-> None, factory |-> fac]
    ELSE IF fac = None THEN [evs |-> <<w150>>, stream |-> None, factory |-> fac]
    ELSE [evs |-> <<w150, Ev("create_io", fac[1], <<>>, <<>>,
                             IF acc THEN "some" ELSE "none")>>,
          stream |-> IF acc THEN Some(fac[1]) ELSE None,
          factory |-> fac]

\* the accepted data stream is a local of the arm (lines 329, 374, 401): it is
\* dropped where the arm ends, at its `continue`, or where `?` returns; the driver
\* never shuts it down itself.  n is the listener the stream came from.
drop(n) == Ev("drop", n, <<>>, <<>>, "")

\* the step of an arm that holds the data stream of listener n: its events, then
\* the drop of the stream, and the loop goes on unless the last write failed
ContinueDropping(events, n) ==
    /\ ev' = events \o <<drop(n)>>
    /\ phase' = "C"
    /\ pc' = IF events[Len(events)].k = "send_err" THEN "done" ELSE "loop"
    /\ result' = IF events[Len(events)].k = "send_err" THEN "Io" ELSE "running"

RECURSIVE list_entries(_, _, _, _, _)
\* lines 348-360: the for loop over the listing dw, from entry i on; dw[i] tells
\* whether writing entry i to the data stream succeeds; the control write number
\* fail of the loop and after fails (0: none does), k counts those made so far
list_entries(tr, i, dw, fail, k) ==
    IF i > Len(dw) THEN <<>>
    ELSE IF dw[i]
    THEN <<Ev("data_write", i, <<>>, <<>>, "ok")>> \o list_entries(tr, i + 1, dw, fail, k)
    ELSE LET w == write(tr, simple(ClosingDataConnectionNoTransfer), fail # k + 1) IN
         <<Ev("data_write", i, <<>>, <<>>, "err"), w>>
         \o (IF w.k = "send_err" THEN <<>>
             ELSE list_entries(tr, i + 1, dw, fail, k + 1))

\* the number of control writes among events
RECURSIVE writes(_)
writes(evs) ==
    IF evs = <<>> THEN 0
    ELSE (IF Head(evs).k \in {"send", "send_err"} THEN 1 ELSE 0) + writes(Tail(evs))

\* lines 336-365: LIST once the data stream is there.  lsr is what handler.ls()
\* answers: an error, or a listing; of each entry of a listing the model keeps
\* whether writing it to the data stream succeeds.
list(tr, lsr, fail) ==
    IF ~lsr.ok
    THEN <<Ev("ls", 0, <<>>, <<>>, "err"),
           write(tr, simple(ClosingDataConnectionNoTransfer), fail # 1)>>
    ELSE LET loop == list_entries(tr, 1, lsr.dw, fail, 0)
             before == <<Ev("ls", Len(lsr.dw), <<>>, <<>>, "ok")>> \o loop
         IN  IF loop # <<>> /\ loop[Len(loop)].k = "send_err"
             THEN before
             ELSE before \o <<write(tr, simple(ClosingDataConnectionSuccessful),
                                    fail # writes(loop) + 1)>>

LsAnswers ==
    {[ok |-> FALSE, dw |-> <<>>]}
    \cup {[ok |-> TRUE, dw |-> dw] : dw \in UNION {[1..n -> BOOLEAN] : n \in 0..MaxLs}}

\* lines 328-366: LIST
CList ==
    /\ \E inp \in Inputs(closed) :
         /\ ReadCommand(inp, {"List"})
         /\ \E w \in BOOLEAN, acc \in BOOLEAN :
              LET p == passive_conn(reader, io_factory, w, acc) IN
              /\ io_factory' = p.factory
              /\ accepted' = (accepted \/ p.stream # None)
              /\ IF p.stream = None
                 THEN \E w2 \in BOOLEAN :
                        Continue(<<ReadEv(inp)>> \o p.evs
                                 \o <<write(reader, simple(CommandNotImplemented), w2)>>, "C")
                 ELSE \E lsr \in LsAnswers, fail \in 0..(MaxLs + 1) :
                        /\ fail <= Len(lsr.dw) + 1
                        /\ ContinueDropping(<<ReadEv(inp)>> \o p.evs \o list(reader, lsr, fail),
                                            p.stream[1])
    /\ UNCHANGED <<security, reader, acceptor, allow_plaintext, user,
                   to_rename, authCalls>>

\* lines 368-371: SYST
CSyst ==
    /\ \E inp \in Inputs(closed) :
         /\ ReadCommand(inp, {"Syst"})
         /\ \E w \in BOOLEAN :
              /\ Continue(<<ReadEv(inp), Ev("os_info", 0, <<>>, <<>>, ""),
                            write(reader, Response("NameSystemType", 0,
                                                   <<"UNIX Type: L8">>, 0), w)>>,
                          "C")
    /\ UNCHANGED <<security, reader, acceptor, allow_plaintext, io_factory, user,
                   to_rename, authCalls, accepted>>

\* a transfer that answers 226 whatever the handler returned
transfer_always_226(tr, method, path, stream, done, w) ==
    <<Ev(method, stream, path, <<>>, IF done THEN "ok" ELSE "err"),
      write(tr, simple(ClosingDataConnectionSuccessful), w)>>

\* lines 381-397 and 408-424: the transfer once the data stream is there; method is
\* "handler.read" (RETR) or "handler.write" (STOR), done tells whether the handler returns Ok
transfer(tr, method, path, stream, done, w) ==
    <<Ev(method, stream, path, <<>>, IF done THEN "ok" ELSE "err"),
      write(tr, IF done THEN simple(ClosingDataConnectionSuccessful)
                ELSE simple(FileUnavailable), w)>>

\* lines 373-398: RETR
CRetr ==
    /\ \E inp \in Inputs(closed) :
         /\ ReadCommand(inp, {"Retr"})
         /\ \E w \in BOOLEAN, acc \in BOOLEAN, done \in BOOLEAN, w2 \in BOOLEAN :
              /\ LET p == passive_conn(reader, io_factory, w, acc) IN
                 /\ io_factory' = p.factory
                 /\ accepted' = (accepted \/ p.stream # None)
                 /\ IF p.stream = None
                    THEN Continue(<<ReadEv(inp)>> \o p.evs
                                  \o <<write(reader, simple(CommandNotImplemented), w2)>>, "C")
                    ELSE ContinueDropping(<<ReadEv(inp)>> \o p.evs
                                          \o transfer(reader, "handler.read", cmd'.cmd.s,
                                                      p.stream[1], done, w2),
                                          p.stream[1])
    /\ UNCHANGED <<security, reader, acceptor, allow_plaintext, user,
                   to_rename, authCalls>>

\* lines 400-425: STOR
CStor ==
    /\ \E inp \in Inputs(closed) :
         /\ ReadCommand(inp, {"Stor"})
         /\ \E w \in BOOLEAN, acc \in BOOLEAN, done \in BOOLEAN, w2 \in BOOLEAN :
              /\ LET p == passive_conn(reader, io_factory, w, acc) IN
                 /\ io_factory' = p.factory
                 /\ accepted' = (accepted \/ p.stream # None)
                 /\ IF p.stream = None
                    THEN Continue(<<ReadEv(inp)>> \o p.evs
                                  \o <<write(reader, simple(CommandNotImplemented), w2)>>, "C")
                    ELSE ContinueDropping(<<ReadEv(inp)>> \o p.evs
                                          \o transfer(reader, "handler.write", cmd'.cmd.s,
                                                      p.stream[1], done, w2),
                                          p.stream[1])
    /\ UNCHANGED <<security, reader, acceptor, allow_plaintext, user,
                   to_rename, authCalls>>

\* line 430: the features the driver always advertises
DefaultFeatures == {"UTF8", "SIZE", "MDTM", "MFMT", "MLST", "MLSD"}

\* what handler.features() may answer
FeatureAnswers == { {}, {"TVFS"}, {"UTF8", "REST"} }

\* a FEAT reply that advertises the default features only
feat_reply_defaults_only(fs) == [Response("Features", 0, None, 0) EXCEPT !.fs = DefaultFeatures]

\* lines 428-437: the reply of FEAT when handler.features() answers fs
feat_reply(fs) == [Response("Features", 0, None, 0) EXCEPT !.fs = fs \cup DefaultFeatures]

\* lines 427-438: FEAT
CFeat ==
    /\ \E inp \in Inputs(closed) :
         /\ ReadCommand(inp, {"Feat"})
         /\ \E w \in BOOLEAN, fs \in FeatureAnswers :
              /\ Continue(<<ReadEv(inp), Ev("features", 0, <<>>, <<>>, ""),
                            write(reader, feat_reply(fs), w)>>,
                          "C")
    /\ UNCHANGED <<security, reader, acceptor, allow_plaintext, io_factory, user,
                   to_rename, authCalls, accepted>>

\* lines 440-445: OPTS
COpts ==
    /\ \E inp \in Inputs(closed) :
         /\ ReadCommand(inp, {"Opts"})
         /\ \E w \in BOOLEAN :
              /\ Continue(<<ReadEv(inp), write(reader, simple(Ok), w)>>, "C")
    /\ UNCHANGED <<security, reader, acceptor, allow_plaintext, io_factory, user,
                   to_rename, authCalls, accepted>>

\* lines 447-450: UTF8
CUtf8 ==
    /\ \E inp \in Inputs(closed) :
         /\ ReadCommand(inp, {"Utf8"})
         /\ \E w \in BOOLEAN :
              /\ Continue(<<ReadEv(inp), write(reader, simple(Ok), w)>>, "C")
    /\ UNCHANGED <<security, reader, acceptor, allow_plaintext, io_factory, user,
                   to_rename, authCalls, accepted>>

\* an arm that takes AUTH, USER and PASS after login as the start of a new login
CAuthUserPass_relogin ==
    /\ \E inp \in Inputs(closed) :
         /\ ReadCommand(inp, {"Auth", "User", "Pass"})
         /\ \E w \in BOOLEAN :
              /\ Continue(<<ReadEv(inp), write(reader, simple(BadSequence), w)>>, "A")
    /\ UNCHANGED <<security, reader, acceptor, allow_plaintext, io_factory, user,
                   to_rename, authCalls, accepted>>

\* lines 452-456: AUTH, USER, PASS after login
CAuthUserPass ==
    /\ \E inp \in Inputs(closed) :
         /\ ReadCommand(inp, {"Auth", "User", "Pass"})
         /\ \E w \in BOOLEAN :
              /\ Continue(<<ReadEv(inp), write(reader, simple(BadSequence), w)>>, "C")
    /\ UNCHANGED <<security, reader, acceptor, allow_plaintext, io_factory, user,
                   to_rename, authCalls, accepted>>

\* lines 458-464: RNFR
CRnfr ==
    /\ \E inp \in Inputs(closed) :
         /\ ReadCommand(inp, {"Rnfr"})
         /\ \E w \in BOOLEAN :
              /\ LET wr == write(reader, simple(FileActionPending), w) IN
                 /\ to_rename' = IF wr.k = "send" THEN Some(cmd'.cmd.s) ELSE to_rename
                 /\ Continue(<<ReadEv(inp), wr>>, "C")
    /\ UNCHANGED <<security, reader, acceptor, allow_plaintext, io_factory, user,
                   authCalls, accepted>>

\* what handler.rename() may answer: Ok(()), or an error with the SimpleReturnCode
\* it converts into and its Display text
RenameAnswers ==
    { [ok |-> TRUE, c |-> 0, msg |-> <<>>],
      [ok |-> FALSE, c |-> FileUnavailable, msg |-> <<"no such file">>],
      [ok |-> FALSE, c |-> ServiceNotAvailable, msg |-> <<"storage offline">>] }

\* the provided method of the trait (code.rs, lines 130-135) taken where the blanket
\* implementation applies: 451 without a message, whatever the error
into_ftp_response_default(e) == simple(LocalError)

\* code.rs, lines 138-149: IntoFtpResponse for Display + Into<SimpleReturnCode>
into_ftp_response(e) == simple_msg(e.c, e.msg)

\* an RNTO without the let-else of lines 467-472: rename is called with an empty
\* source when none is pending
rnto_unchecked(tr, from, to, ra, w) ==
    <<Ev("rename", IF ra.ok THEN 0 ELSE ra.c, IF from = None THEN <<>> ELSE from[1], to,
         IF ra.ok THEN "ok" ELSE "err"),
      write(tr, IF ra.ok THEN simple(Ok) ELSE simple_msg(ra.c, ra.msg), w)>>

\* lines 466-494: RNTO.  from is to_rename.take(); ra is what handler.rename()
\* answers (the rename event keeps the code of the handler's error in n).
rnto(tr, from, to, ra, w) ==
    IF from = None
    THEN <<write(tr, simple(BadSequence), w)>>
    ELSE <<Ev("rename", IF ra.ok THEN 0 ELSE ra.c, from[1], to, IF ra.ok THEN "ok" ELSE "err"),
           write(tr, IF ra.ok THEN simple(Ok) ELSE into_ftp_response(ra), w)>>

\* an RNTO that reads the pending source without taking it
CRnto_keeping ==
    /\ \E inp \in Inputs(closed) :
         /\ ReadCommand(inp, {"Rnto"})
         /\ \E w \in BOOLEAN, ra \in RenameAnswers :
              /\ to_rename' = to_rename
              /\ Continue(<<ReadEv(inp)>> \o rnto(reader, to_rename, cmd'.cmd.s, ra, w), "C")
    /\ UNCHANGED <<security, reader, acceptor, allow_plaintext, io_factory, user,
                   authCalls, accepted>>

\* lines 466-494: RNTO
CRnto ==
    /\ \E inp \in Inputs(closed) :
         /\ ReadCommand(inp, {"Rnto"})
         /\ \E w \in BOOLEAN, ra \in RenameAnswers :
              /\ to_rename' = None
              /\ Continue(<<ReadEv(inp)>> \o rnto(reader, to_rename, cmd'.cmd.s, ra, w), "C")
    /\ UNCHANGED <<security, reader, acceptor, allow_plaintext, io_factory, user,
                   authCalls, accepted>>

\* lines 496-499: PBSZ
CPbsz ==
    /\ \E inp \in Inputs(closed) :
         /\ ReadCommand(inp, {"Pbsz"})
         /\ \E w \in BOOLEAN :
              /\ Continue(<<ReadEv(inp), write(reader, simple(Ok), w)>>, "C")
    /\ UNCHANGED <<security, reader, acceptor, allow_plaintext, io_factory, user,
                   to_rename, authCalls, accepted>>

Next ==
    \/ Build
    \/ Greet
    \/ ADisconnect
    \/ AReadError
    \/ AAuthTls
    \/ AAuthUnsupported
    \/ AUserRefused
    \/ AUser
    \/ AOpts
    \/ AOther
    \/ BReadError
    \/ BNotPass
    \/ BPass
    \/ CDisconnect
    \/ CParseError
    \/ CReadIoError
    \/ CPwd
    \/ CCwd
    \/ CType
    \/ CPasv
    \/ CList
    \/ CSyst
    \/ CRetr
    \/ CStor
    \/ CFeat
    \/ COpts
    \/ CUtf8
    \/ CAuthUserPass
    \/ CRnfr
    \/ CRnto
    \/ CPbsz

Spec == Init /\ [][Next]_vars

\* every read, write and handler call returns; of this the specification keeps
\* what happens once the client has closed the connection: a step that can be
\* taken then is taken
SpecLive == Init /\ [][Next]_vars /\ WF_vars(closed /\ Next)

(***************************************************************************)
(* The transport envelope on its own: Ftp::read, Ftp::write, flush, close  *)
(* and upgrade_tls applied in any order to the envelope a builder leaves,  *)
(* at most MaxEnvOps times (nread counts them).                            *)
(***************************************************************************)
InitEnv ==
    /\ pc = "env"
    /\ phase = "A"
    /\ security \in Securities
    /\ reader = new_from_builder(security, TRUE).reader
    /\ acceptor = new_from_builder(security, TRUE).acceptor
    /\ allow_plaintext = new_from_builder(security, TRUE).allow_plaintext
    /\ io_factory = None
    /\ user = None
    /\ to_rename = None
    /\ nread = 0
    /\ closed = FALSE
    /\ cmd = NoCommand
    /\ ev = <<>>
    /\ result = "running"
    /\ authCalls = 0
    /\ accepted = FALSE

\* one more operation on the envelope
EnvOp ==
    /\ pc = "env"
    /\ nread < MaxEnvOps
    /\ nread' = nread + 1
    /\ UNCHANGED <<pc, phase, security, acceptor, allow_plaintext, io_factory, user,
                   to_rename, result, authCalls, accepted>>

\* Ftp::read
EnvRead ==
    /\ EnvOp
    /\ \E inp \in Inputs(closed) :
         /\ closed' = (closed \/ inp.kind = "eof")
         /\ cmd' = read(reader, inp)
         /\ ev' = <<ReadEv(inp)>>
    /\ UNCHANGED reader

\* Ftp::write
EnvWrite ==
    /\ EnvOp
    /\ \E w \in BOOLEAN, c \in {Ok, BadSequence} :
         ev' = <<write(reader, simple(c), w)>>
    /\ UNCHANGED <<reader, closed, cmd>>

\* MaybeTls::poll_flush
EnvFlush ==
    /\ EnvOp
    /\ \E inner \in BOOLEAN :
         ev' = <<Ev("flush", 0, <<>>, <<>>, IF poll_flush(reader, inner) THEN "ok" ELSE "err")>>
    /\ UNCHANGED <<reader, closed, cmd>>

\* MaybeTls::poll_close
EnvClose ==
    /\ EnvOp
    /\ \E inner \in BOOLEAN :
         ev' = <<Ev("close", 0, <<>>, <<>>, IF poll_close(reader, inner) THEN "ok" ELSE "err")>>
    /\ UNCHANGED <<reader, closed, cmd>>

\* Ftp::upgrade_tls
EnvUpgrade ==
    /\ EnvOp
    /\ \E hs \in BOOLEAN :
         /\ reader' = upgrade_tls(reader, acceptor, hs).reader
         /\ ev' = <<Ev("upgrade_tls", 0, upgrade_tls(reader, acceptor, hs).via, <<>>,
                       upgrade_tls(reader, acceptor, hs).res)>>
    /\ UNCHANGED <<closed, cmd>>

NextEnv ==
    \/ EnvRead
    \/ EnvWrite
    \/ EnvFlush
    \/ EnvClose
    \/ EnvUpgrade

SpecEnv == InitEnv /\ [][NextEnv]_vars

(***************************************************************************)
(* Command::from_str on its own: a line of the client is parsed once.  The *)
(* lines are the forms of ParseForms written with the verb in three letter *)
(* cases and with more or less whitespace before the verb, between verb    *)
(* and argument, and at the end.  ev[1].s keeps the plain form of the      *)
(* line, ev[1].t the line as written.                                      *)
(***************************************************************************)
to_ascii_lowercase(c) ==
    IF \E i \in 1..Len(UpperCase) : UpperCase[i] = c
    THEN LowerCase[CHOOSE i \in 1..Len(UpperCase) : UpperCase[i] = c]
    ELSE c

\* the verb in upper case, in lower case, and capitalised
VerbCases(kw) ==
    { kw,
      [i \in 1..Len(kw) |-> to_ascii_lowercase(kw[i])],
      [i \in 1..Len(kw) |-> IF i = 1 THEN kw[i] ELSE to_ascii_lowercase(kw[i])] }

\* a verb of the table with an argument its parser accepts (<<>>: none)
ParseForms ==
    { [kw |-> <<"A","U","T","H">>, arg |-> <<"T","L","S">>],
      [kw |-> <<"U","S","E","R">>, arg |-> <<"a","l">>],
      [kw |-> <<"P","A","S","S">>, arg |-> <<"p","w">>],
      [kw |-> <<"C","W","D">>,     arg |-> <<"d">>],
      [kw |-> <<"P","W","D">>,     arg |-> <<>>],
      [kw |-> <<"T","Y","P","E">>, arg |-> <<"I">>],
      [kw |-> <<"P","A","S","V">>, arg |-> <<>>],
      [kw |-> <<"L","I","S","T">>, arg |-> <<>>],
      [kw |-> <<"R","E","T","R">>, arg |-> <<"a">>],
      [kw |-> <<"S","Y","S","T">>, arg |-> <<>>],
      [kw |-> <<"S","T","O","R">>, arg |-> <<"a">>],
      [kw |-> <<"F","E","A","T">>, arg |-> <<>>],
      [kw |-> <<"O","P","T","S">>, arg |-> <<"x">>],
      [kw |-> <<"U","T","F","8">>, arg |-> <<>>],
      [kw |-> <<"P","B","S","Z">>, arg |-> <<"0">>],
      [kw |-> <<"R","N","F","R">>, arg |-> <<"a">>],
      [kw |-> <<"R","N","T","O">>, arg |-> <<"c">>] }

\* the plain form of a line: VERB, or VERB, one space, argument
PlainLine(f) == IF f.arg = <<>> THEN f.kw ELSE f.kw \o <<" ">> \o f.arg

Leads == { <<>>, <<" ">> }
Separators == { <<" ">>, <<" ", " ">> }
Trails == { <<>>, <<" ">> }

\* the ways of writing form f
WrittenLines(f) ==
    IF f.arg = <<>>
    THEN { lead \o v \o trail : lead \in Leads, v \in VerbCases(f.kw), trail \in Trails }
    ELSE UNION { { lead \o v \o sep \o f.arg \o trail : lead \in Leads, v \in VerbCases(f.kw) }
                 : sep \in Separators, trail \in Trails }

InitParse ==
    /\ pc = "parse"
    /\ phase = "A"
    /\ security = NoEncryption
    /\ reader = "Plain"
    /\ acceptor = FALSE
    /\ allow_plaintext = TRUE
    /\ io_factory = None
    /\ user = None
    /\ to_rename = None
    /\ nread = 0
    /\ closed = FALSE
    /\ cmd = NoCommand
    /\ \E f \in ParseForms : \E l \in WrittenLines(f) :
         ev = <<Ev("line", 0, PlainLine(f), l, "")>>
    /\ result = "running"
    /\ authCalls = 0
    /\ accepted = FALSE

\* ftp.rs, lines 570-573: command_str.parse(), as Ftp::read wraps it
ParseLine ==
    /\ pc = "parse"
    /\ pc' = "parsed"
    /\ cmd' = CommandRead(IF Command_from_str(ev[1].t).ok THEN "Command" ELSE "Parse",
                          Command_from_str(ev[1].t))
    /\ UNCHANGED <<phase, security, reader, acceptor, allow_plaintext, io_factory, user,
                   to_rename, nread, closed, ev, result, authCalls, accepted>>

NextParse == ParseLine

SpecParse == InitParse /\ [][NextParse]_vars

(***************************************************************************)
(* FtpResponse::to_bytes on its own: a response is encoded once.  ev[1]    *)
(* keeps the response (r) and, for an EnteringPassiveMode, the address of  *)
(* the listener (s: the four octets, n: the port); ev[2].s is the bytes.   *)
(***************************************************************************)
\* the orders in which the elements of a set may be iterated
RECURSIVE Orders(_)
Orders(S) ==
    IF S = {} THEN {<<>>}
    ELSE UNION { { <<x>> \o o : o \in Orders(S \ {x}) } : x \in S }

ToEncode(r, ip, port) ==
    [k |-> "response", r |-> r, n |-> port, s |-> ip, t |-> <<>>, on |-> "", o |-> ""]

InitEncoding(r, ip, port) ==
    /\ pc = "encode"
    /\ phase = "A"
    /\ security = NoEncryption
    /\ reader = "Plain"
    /\ acceptor = FALSE
    /\ allow_plaintext = TRUE
    /\ io_factory = None
    /\ user = None
    /\ to_rename = None
    /\ nread = 0
    /\ closed = FALSE
    /\ cmd = NoCommand
    /\ ev = <<ToEncode(r, ip, port)>>
    /\ result = "running"
    /\ authCalls = 0
    /\ accepted = FALSE

\* msg.to_bytes(), line 577 of ftp.rs
Encode ==
    /\ pc = "encode"
    /\ pc' = "encoded"
    /\ \E order \in Orders(ev[1].r.fs) :
         ev' = ev \o <<Ev("bytes", 0, to_bytes(ev[1].r, ev[1].s, ev[1].n, order), order, "")>>
    /\ UNCHANGED <<phase, security, reader, acceptor, allow_plaintext, io_factory, user,
                   to_rename, nread, closed, cmd, result, authCalls, accepted>>

NextEncode == Encode

\* the listeners a 227 may advertise: every port on the loopback address, and the
\* ports at the ends of the two bytes on other addresses
PassiveAddresses ==
    { <<<<127, 0, 0, 1>>, port>> : port \in U16 }
    \cup { <<ip, port>> : ip \in {<<0, 0, 0, 0>>, <<192, 168, 10, 255>>},
                          port \in {0, 255, 256, 65535} }

InitPort ==
    \E a \in PassiveAddresses :
      InitEncoding(Response("EnteringPassiveMode", 0, None, 0), a[1], a[2])

SpecPort == InitPort /\ [][NextEncode]_vars

\* code.rs, lines 16-50: the table of SimpleReturnCode
SimpleReturnCodes ==
    { 110, 120, 125, 150, 200, 202, 211, 212, 213, 214, 221, 225, 226, 230, 234, 331, 332,
      350, 421, 425, 426, 450, 451, 452, 501, 502, 503, 504, 530, 532, 550, 552, 553 }

\* texts a response may carry: empty, plain, with a quote, with a line break
Messages ==
    { <<>>, <<"o", "k">>, <<"a", "\"", "b">>, <<"x", "\r", "\n", "y">> }

\* the sets of features a Features may carry
FeatureSets == { {}, {"UTF8"}, {"UTF8", "SIZE"}, {"UTF8", "SIZE", "TVFS"} }

\* the responses of every variant of FtpResponse
EncodeResponses ==
    { simple(c) : c \in SimpleReturnCodes }
    \cup { simple_msg(c, m) : c \in SimpleReturnCodes, m \in Messages }
    \cup { Response(v, 0, m, 0) : v \in {"ReadyForNewUser", "NameSystemType",
                                        "DirectoryCreated"}, m \in Messages }
    \cup { Response("FileActionOk", 0, None, 0) }
    \cup { Response("FileActionOk", 0, Some(m), 0) : m \in Messages }
    \cup { [Response("Features", 0, None, 0) EXCEPT !.fs = fs] : fs \in FeatureSets }

InitEncode ==
    \/ \E r \in EncodeResponses : InitEncoding(r, <<0, 0, 0, 0>>, 0)
    \/ \E ip \in {<<127, 0, 0, 1>>, <<10, 20, 30, 40>>}, port \in {0, 21, 2121, 65535} :
         InitEncoding(Response("EnteringPassiveMode", 0, None, 0), ip, port)

SpecEncode == InitEncode /\ [][NextEncode]_vars

(***************************************************************************)
(* The FEAT arm down to the bytes: ev[1].r.fs keeps what handler.features()*)
(* answered, ev[2].r is the reply and ev[2].s its bytes, the features      *)
(* written in one of the orders the HashSet may yield.                     *)
(***************************************************************************)
InitFeat ==
    \E fs \in FeatureAnswers :
      InitEncoding([NoResponse EXCEPT !.fs = fs], <<0, 0, 0, 0>>, 0)

\* ftp.rs, lines 428-437, and the to_bytes of Ftp::write
FeatEncode ==
    /\ pc = "encode"
    /\ pc' = "encoded"
    /\ \E order \in Orders(feat_reply(ev[1].r.fs).fs) :
         ev' = ev \o <<[k |-> "bytes", r |-> feat_reply(ev[1].r.fs), n |-> 0,
                        s |-> to_bytes(feat_reply(ev[1].r.fs), <<0, 0, 0, 0>>, 0, order),
                        t |-> order, on |-> "", o |-> ""]>>
    /\ UNCHANGED <<phase, security, reader, acceptor, allow_plaintext, io_factory, user,
                   to_rename, nread, closed, cmd, result, authCalls, accepted>>

NextFeat == FeatEncode

SpecFeat == InitFeat /\ [][NextFeat]_vars

(***************************************************************************)
(* Vocabulary of the properties.                                           *)
(***************************************************************************)
\* response c was written and flushed on the control channel
Sent(evs, c) == \E i \in 1..Len(evs) : evs[i].k = "send" /\ evs[i].n = c

\* the driver wrote, or tried to write, response c
Tried(evs, c) == \E i \in 1..Len(evs) : evs[i].k \in {"send", "send_err"} /\ evs[i].n = c

\* no control write failed
AllSent(evs) == \A i \in 1..Len(evs) : evs[i].k # "send_err"

Has(evs, k) == \E i \in 1..Len(evs) : evs[i].k = k

HandlerMethods ==
    {"welcome", "authenticate", "cwd", "set_cwd", "passive_conn", "ls", "handler.read",
     "handler.write", "features", "os_info", "rename"}

DataCommands == {"List", "Retr", "Stor"}

\* data-channel I/O: the handler's ls/read/write and the entries LIST writes
DataIO == {"ls", "handler.read", "handler.write", "data_write"}

\* the step being taken reads the control channel in phase ph
ReadsIn(ph) == pc = "loop" /\ phase = ph /\ nread' = nread + 1

\* the state is the one a read step of phase C left, and it read a command
AfterCommand == phase = "C" /\ cmd.t = "Command" /\ ev # <<>> /\ ev[1].k = "read"

\* the responses sent other than 150
Finals(evs) == {i \in 1..Len(evs) : evs[i].k = "send" /\ evs[i].n # OpeningDataConnection}

Preliminaries(evs) ==
    {i \in 1..Len(evs) : evs[i].k = "send" /\ evs[i].n = OpeningDataConnection}

(***************************************************************************)
(* C1                                                                      *)
(***************************************************************************)
\* C1: when TLS is configured with allow_plaintext = false, in every state in which
\* authenticate has been called, the 230 reply has been sent or the command loop has
\* been entered, the control transport is Tls.
C1_LoginOnlyOverTls ==
    (security.tls /\ ~security.allow_plaintext
       /\ (authCalls > 0 \/ Has(ev, "authenticate") \/ Tried(ev, UserLoggedIn) \/ phase = "C"))
    => reader = "Tls"

\* a session that had to upgrade with AUTH TLS is logged in over Tls
C1_Witness ==
    /\ security.tls /\ ~security.implicit /\ ~security.allow_plaintext
    /\ authCalls = 1
    /\ Sent(ev, UserLoggedIn)
    /\ phase = "C"
    /\ reader = "Tls"

(***************************************************************************)
(* C2                                                                      *)
(***************************************************************************)
\* C2: the passive factory is single-shot: once a LIST, RETR or STOR has accepted a
\* data stream from the installed factory, the factory is no longer installed, and
\* the next LIST/RETR/STOR without a successful PASV in between is answered 502 and
\* accepts no data stream.
C2_FactorySingleShot ==
    [][ /\ (accepted' /\ ~accepted) => io_factory' = None
        /\ (ReadsIn("C") /\ accepted /\ cmd'.t = "Command" /\ cmd'.cmd.name \in DataCommands)
             => (~Has(ev', "create_io") /\ Tried(ev', CommandNotImplemented))
      ]_vars

(***************************************************************************)
(* C3                                                                      *)
(***************************************************************************)
\* C3: in a LIST, RETR or STOR the first thing done is the write of 150; create_io
\* is invoked, and data I/O (ls, read, write, the entries of a listing) starts, only
\* after 150 was written and flushed and the factory accepted; every terminal
\* status reply comes after the handler call.
C3_DataCommandOrder ==
    (AfterCommand /\ cmd.cmd.name \in DataCommands) =>
      /\ Len(ev) >= 2
      /\ ev[2].k \in {"send", "send_err"} /\ ev[2].n = OpeningDataConnection
      /\ \A i \in 1..Len(ev) :
           ev[i].k = "create_io" => (ev[2].k = "send" /\ i = 3)
      /\ \A i \in 1..Len(ev) :
           ev[i].k \in DataIO => (ev[2].k = "send" /\ ev[3].k = "create_io" /\ i > 3)
      /\ \A i \in 1..Len(ev), j \in 1..Len(ev) :
           (ev[i].k \in {"ls", "handler.read", "handler.write"}
              /\ ev[j].k \in {"send", "send_err"} /\ j # 2)
           => i < j

\* a RETR that got its data stream, had the handler read the file and sent 226
C3_Witness ==
    /\ AfterCommand /\ cmd.cmd.name = "Retr"
    /\ io_factory # None
    /\ Len(ev) = 6
    /\ ev[2].k = "send" /\ ev[2].n = OpeningDataConnection
    /\ ev[3].k = "create_io" /\ ev[3].o = "some"
    /\ ev[4].k = "handler.read" /\ ev[4].o = "ok"
    /\ ev[5].k = "send" /\ ev[5].n = ClosingDataConnectionSuccessful
    /\ ev[6].k = "drop"

(***************************************************************************)
(* C4                                                                      *)
(***************************************************************************)
\* C4: in the command loop every command receives at most one final response; a
\* LIST, RETR or STOR receives one 150 and after it exactly one terminal 2xx or 5xx
\* response, whatever the outcome of the transfer (control writes all succeeding).
C4_OneFinalResponse ==
    (AfterCommand /\ AllSent(ev)) =>
      /\ Cardinality(Finals(ev)) <= 1
      /\ cmd.cmd.name \in DataCommands =>
           /\ Cardinality(Preliminaries(ev)) = 1
           /\ Cardinality(Finals(ev)) = 1
           /\ \A i \in Finals(ev) :
                /\ \A j \in Preliminaries(ev) : j < i
                /\ ev[i].n \div 100 \in {2, 5}

(***************************************************************************)
(* C5                                                                      *)
(***************************************************************************)
\* C5: before authentication a line whose verb is not in the table (NOOP) is
\* answered with 503, and the session then terminates.
C5_UnknownVerbPreAuth ==
    (phase = "A" /\ cmd.t = "Parse" /\ cmd.cmd.err[1] = "unknown command: ")
    => (Tried(ev, BadSequence) /\ pc = "done")

(***************************************************************************)
(* C6                                                                      *)
(***************************************************************************)
\* C6: before authentication a parsed command other than AUTH, USER and OPTS is
\* answered 503 and nothing else is done for it: no handler method is called, handle
\* returns Ok(()) (the I/O error if the write of 503 failed), and a session that
\* has returned takes no further step, so no further command is read.
C6_PreAuthOtherCommand ==
    [][ /\ pc # "done"
        /\ (ReadsIn("A") /\ cmd'.t = "Command" /\ cmd'.cmd.name \notin {"Auth", "User", "Opts"})
             => /\ Len(ev') = 2
                /\ ev'[2].k \in {"send", "send_err"} /\ ev'[2].n = BadSequence
                /\ \A i \in 1..Len(ev') : ev'[i].k \notin HandlerMethods
                /\ authCalls' = authCalls
                /\ pc' = "done"
                /\ result' = IF ev'[2].k = "send" THEN "Ok" ELSE "Io"
      ]_vars

\* a PASV before USER was answered 503 and handle returned Ok(())
C6_Witness ==
    /\ phase = "A" /\ cmd.t = "Command" /\ cmd.cmd.name = "Pasv"
    /\ Sent(ev, BadSequence)
    /\ pc = "done" /\ result = "Ok"

(***************************************************************************)
(* C7                                                                      *)
(***************************************************************************)
\* C7: when authenticate returns false or an error the session writes 530 and
\* terminates without entering the command loop; only when it returns true is 230
\* written and the command loop entered.
C7_AuthenticateOutcome ==
    (Len(ev) >= 2 /\ ev[2].k = "authenticate") =>
      IF ev[2].o = "true"
      THEN /\ Tried(ev, UserLoggedIn)
           /\ Sent(ev, UserLoggedIn) => (phase = "C" /\ pc = "loop")
      ELSE /\ Tried(ev, NotLoggedIn)
           /\ ~Tried(ev, UserLoggedIn)
           /\ phase = "B" /\ pc = "done"

C9_UpgradeBrokenTerminal ==
    [][ reader = "UpgradeBroken" =>
          /\ reader' = "UpgradeBroken"
          /\ Len(ev') = 1
          /\ CASE ev'[1].k = "read" -> ev'[1].o = "Io" /\ cmd'.t = "Io"
               [] ev'[1].k \in {"send", "send_err"} -> ev'[1].k = "send_err"
               [] ev'[1].k \in {"flush", "close"} -> ev'[1].o = "err"
               [] ev'[1].k = "upgrade_tls" -> ev'[1].o = "TlsUpgrade(PreviousFailure)"
               [] OTHER -> FALSE
      ]_vars

\* a broken envelope was asked to upgrade again
C9_Witness ==
    /\ pc = "env"
    /\ reader = "UpgradeBroken"
    /\ nread >= 2
    /\ ev[1].k = "upgrade_tls" /\ ev[1].o = "TlsUpgrade(PreviousFailure)"

(***************************************************************************)
(* C10                                                                     *)
(***************************************************************************)
\* C10: when the handshake started by AUTH TLS fails, the transport is left
\* UpgradeBroken, handle returns the TLS-upgrade error, the 234 is the last response
\* written, and the session, having returned, takes no further step.
C10_HandshakeFailure ==
    [][ /\ pc # "done"
        /\ (ReadsIn("A") /\ Has(ev', "upgrade_tls")
              /\ ev'[Len(ev')].o # "Ok")
             => /\ reader' = "UpgradeBroken"
                /\ result' = "TlsUpgrade(Io)"
                /\ pc' = "done"
                /\ Len(ev') = 3
                /\ ev'[2].k = "send" /\ ev'[2].n = AuthenticationSuccessful
                /\ ev'[3].k = "upgrade_tls"
      ]_vars

\* the handshake of an AUTH TLS failed
C10_Witness ==
    /\ phase = "A" /\ pc = "done"
    /\ cmd.t = "Command" /\ cmd.cmd.name = "Auth"
    /\ Len(ev) = 3 /\ ev[3].k = "upgrade_tls" /\ ev[3].o = "TlsUpgrade(Io)"
    /\ reader = "UpgradeBroken"
    /\ result = "TlsUpgrade(Io)"

(***************************************************************************)
(* C11                                                                     *)
(***************************************************************************)
\* what was read is the command called name
IsCommand(cr, name) == cr.t = "Command" /\ cr.cmd.name = name

\* C11 as the specification states it: the command that follows an RNFR, whatever
\* it is, leaves no pending rename source.
C11_ClearedByNextCommand ==
    [][ (ReadsIn("C") /\ IsCommand(cmd, "Rnfr") /\ cmd'.t = "Command")
          => to_rename' = None ]_vars

\* C11: the pending rename source is set only by an RNFR (once its 350 is written)
\* and cleared only by an RNTO: after RNFR p and one more command it is empty if
\* that command is an RNTO, the new path if it is another RNFR, and still p after
\* anything else; before the command loop it is empty.
C11_SetByRnfrClearedByRnto ==
    [][ /\ ReadsIn("C") =>
             to_rename' = IF IsCommand(cmd', "Rnfr") /\ Sent(ev', FileActionPending)
                          THEN Some(cmd'.cmd.s)
                          ELSE IF IsCommand(cmd', "Rnto") THEN None
                          ELSE to_rename
        /\ ~ReadsIn("C") => (to_rename = None /\ to_rename' = None)
      ]_vars

\* RNFR a, then a PWD: a is still pending
C11_Witness ==
    /\ phase = "C" /\ pc = "loop"
    /\ IsCommand(cmd, "Pwd")
    /\ to_rename = Some(<<"a">>)

(***************************************************************************)
(* C12                                                                     *)
(***************************************************************************)
\* C12: in the command loop every step that reads anything but an RNFR or an RNTO
\* (another command, a line that does not parse, the end of the stream, an I/O
\* error) leaves the pending rename source as it was, and an RNTO t read while a
\* source f is pending calls rename(f, t): so RNFR a; PWD; RNTO c calls
\* rename(a, c).
C12_PendingSurvives ==
    [][ /\ (ReadsIn("C") /\ ~IsCommand(cmd', "Rnfr") /\ ~IsCommand(cmd', "Rnto"))
             => to_rename' = to_rename
        /\ (ReadsIn("C") /\ IsCommand(cmd', "Rnto") /\ to_rename # None)
             => /\ Len(ev') = 3
                /\ ev'[2].k = "rename"
                /\ ev'[2].s = to_rename[1]
                /\ ev'[2].t = cmd'.cmd.s
      ]_vars

\* the fifth line of a plain session (USER, PASS and two more before it) is RNTO c,
\* and rename(a, c) was called and answered 200
C12_Witness ==
    /\ phase = "C" /\ pc = "loop"
    /\ IsCommand(cmd, "Rnto")
    /\ nread = 5
    /\ Len(ev) = 3
    /\ ev[2].k = "rename" /\ ev[2].s = <<"a">> /\ ev[2].t = <<"c">> /\ ev[2].o = "ok"
    /\ ev[3].k = "send" /\ ev[3].n = Ok

(***************************************************************************)
(* C13                                                                     *)
(***************************************************************************)
\* C13: an RNTO read while no rename source is pending is answered 503 and nothing
\* else is done for it: no handler method is called, no source becomes pending, and
\* the session goes on to its next read (unless the write of 503 failed).
C13_RntoWithoutSource ==
    [][ (ReadsIn("C") /\ IsCommand(cmd', "Rnto") /\ to_rename = None)
          => /\ Len(ev') = 2
             /\ ev'[2].k \in {"send", "send_err"} /\ ev'[2].n = BadSequence
             /\ \A i \in 1..Len(ev') : ev'[i].k \notin HandlerMethods
             /\ to_rename' = None
             /\ phase' = "C"
             /\ ev'[2].k = "send" => (pc' = "loop" /\ result' = "running")
      ]_vars

\* an RNTO right after login: 503, and the session goes on
C13_Witness ==
    /\ phase = "C" /\ pc = "loop"
    /\ IsCommand(cmd, "Rnto")
    /\ nread = 3
    /\ Len(ev) = 2 /\ ev[2].k = "send" /\ ev[2].n = BadSequence
    /\ to_rename = None

(***************************************************************************)
(* C14                                                                     *)
(***************************************************************************)
\* C14: an accepted RNFR makes its path the pending source; an RNTO p read while a
\* source is pending calls rename exactly once, with that source and p, replies 200
\* when rename succeeds and the error's own response (its code and its display
\* message) when it fails, and leaves no source pending, so that an RNTO read right
\* after an RNTO is answered 503 without a call of rename.
C14_RntoWithSource ==
    [][ /\ (ReadsIn("C") /\ IsCommand(cmd', "Rnfr") /\ Sent(ev', FileActionPending))
             => to_rename' = Some(cmd'.cmd.s)
        /\ (ReadsIn("C") /\ IsCommand(cmd', "Rnto") /\ to_rename # None)
             => /\ Len(ev') = 3
                /\ {i \in 1..Len(ev') : ev'[i].k = "rename"} = {2}
                /\ ev'[2].s = to_rename[1] /\ ev'[2].t = cmd'.cmd.s
                /\ ev'[3].k \in {"send", "send_err"}
                /\ IF ev'[2].o = "ok"
                   THEN ev'[3].r = [variant |-> "Simple", c |-> Ok, msg |-> None,
                                    n |-> 0, fs |-> {}]
                   ELSE \E e \in RenameAnswers :
                          /\ ~e.ok /\ e.c = ev'[2].n
                          /\ ev'[3].r = [variant |-> "Simple", c |-> e.c, msg |-> Some(e.msg),
                                         n |-> 0, fs |-> {}]
                /\ to_rename' = None
                /\ ev'[3].k = "send" => (pc' = "loop" /\ phase' = "C")
        /\ (ReadsIn("C") /\ IsCommand(cmd, "Rnto") /\ IsCommand(cmd', "Rnto"))
             => /\ Len(ev') = 2
                /\ ev'[2].k \in {"send", "send_err"} /\ ev'[2].n = BadSequence
      ]_vars

\* RNFR b was the last RNFR, RNTO c followed, rename(b, c) failed with the error that
\* converts into 550 "no such file", and that is what was sent
C14_Witness ==
    /\ phase = "C" /\ pc = "loop"
    /\ IsCommand(cmd, "Rnto")
    /\ Len(ev) = 3
    /\ ev[2].k = "rename" /\ ev[2].s = <<"b">> /\ ev[2].t = <<"c">> /\ ev[2].o = "err"
    /\ ev[3].k = "send" /\ ev[3].n = FileUnavailable
    /\ ev[3].r.msg = Some(<<"no such file">>)
    /\ to_rename = None

(***************************************************************************)
(* C15                                                                     *)
(***************************************************************************)
\* C15: a LIST, RETR or STOR read while no passive factory is installed is answered
\* with 502 only: no 150 is written, no data stream is accepted, and none of the
\* handler's ls, read and write is called (control writes all succeeding).
C15_NoFactoryOnly502 ==
    [][ (ReadsIn("C") /\ cmd'.t = "Command" /\ cmd'.cmd.name \in DataCommands
           /\ io_factory = None /\ AllSent(ev'))
          => /\ Len(ev') = 2
             /\ ev'[2].k \in {"send", "send_err"} /\ ev'[2].n = CommandNotImplemented
             /\ ~Tried(ev', OpeningDataConnection)
             /\ \A i \in 1..Len(ev') : ev'[i].k \notin (DataIO \cup {"create_io"})
      ]_vars

(***************************************************************************)
(* C16                                                                     *)
(***************************************************************************)
\* the listing of a LIST failed: ls() returned an error, or a write of an entry to
\* the data stream did
ListingFailed(evs) ==
    \E i \in 1..Len(evs) : evs[i].k \in {"ls", "data_write"} /\ evs[i].o = "err"

\* C16: a LIST that got its data stream replies 226 only when ls() succeeded and
\* every entry was written to the data stream; when ls() or a write of an entry
\* fails its terminal reply is 225 and no 226 is sent; either way the session goes
\* on to the next read (control writes all succeeding).
C16_List226OnlyOnSuccess ==
    (AfterCommand /\ cmd.cmd.name = "List" /\ Has(ev, "ls") /\ AllSent(ev)) =>
      /\ Sent(ev, ClosingDataConnectionSuccessful) => ~ListingFailed(ev)
      /\ ListingFailed(ev) =>
           (Sent(ev, ClosingDataConnectionNoTransfer)
              /\ ~Sent(ev, ClosingDataConnectionSuccessful))
      /\ ~ListingFailed(ev) => Sent(ev, ClosingDataConnectionSuccessful)
      /\ pc = "loop"

C18_UserRefusedChangesNothing ==
    [][ /\ (ReadsIn("A") /\ IsCommand(cmd', "User")
              /\ security.tls /\ ~security.allow_plaintext /\ reader # "Tls")
             => /\ Len(ev') = 2
                /\ ev'[2].k \in {"send", "send_err"} /\ ev'[2].n = NotLoggedIn
                /\ ev'[2].r.msg = Some(<<"Please use AUTH TLS before sending USER command.">>)
                /\ phase' = "A"
                /\ reader' = reader
                /\ user = None /\ user' = None
                /\ <<acceptor', allow_plaintext', io_factory', to_rename', authCalls'>>
                     = <<acceptor, allow_plaintext, io_factory, to_rename, authCalls>>
                /\ ev'[2].k = "send" => (pc' = "loop" /\ result' = "running")
        /\ (ReadsIn("A") /\ IsCommand(cmd', "User") /\ reader = "Tls")
             => /\ Len(ev') = 2
                /\ ev'[2].k \in {"send", "send_err"} /\ ev'[2].n = NeedPassword
                /\ user' = Some(cmd'.cmd.s)
                /\ phase' = "B"
      ]_vars

\* a USER was refused on the plain transport and the session waits for its next
\* command in phase A
C18_Witness ==
    /\ security.tls /\ ~security.allow_plaintext
    /\ phase = "A" /\ pc = "loop"
    /\ IsCommand(cmd, "User")
    /\ Sent(ev, NotLoggedIn)
    /\ reader = "Plain"
    /\ user = None

(***************************************************************************)
(* C19                                                                     *)
(***************************************************************************)
\* a read or a write of the control channel failed with an I/O error in the step
IoFailed(evs) ==
    \E i \in 1..Len(evs) :
      \/ evs[i].k = "read" /\ evs[i].o = "Io"
      \/ evs[i].k = "send_err"

\* C19: a step of handle in which a read or a write of the control channel fails
\* with an I/O error, in whichever phase, is the last one, and handle returns an
\* error.
C19_IoErrorsPropagate ==
    (pc \in {"loop", "done"} /\ IoFailed(ev)) =>
      (pc = "done" /\ result \notin {"running", "Ok"})

(***************************************************************************)
(* C20                                                                     *)
(***************************************************************************)
\* the text the parser gives for the three unparsable lines the client sends
UnparsableLines ==
    { <<"N","O","O","P">>, <<"T","Y","P","E"," ","Q">>, <<"A","U","T","H"," ","X","Y","Z">> }

ParseErrorText(line) ==
    CASE line = <<"N","O","O","P">> -> <<"unknown command: ", "N","O","O","P">>
      [] line = <<"T","Y","P","E"," ","Q">> ->
           <<"failed to parse ", "T","Y","P","E", " command: ", "invalid transfer type">>
      [] line = <<"A","U","T","H"," ","X","Y","Z">> ->
           <<"failed to parse ", "A","U","T","H", " command: ",
             "invalid authentication type">>
      [] OTHER -> <<>>

\* C20: when a line read after authentication fails to parse, the step writes one
\* response, a 502 whose message is the parse error (the text the parser gives
\* for an unknown verb, a bad TYPE argument and a bad AUTH argument), leaves the
\* passive factory and the pending rename source as they were, calls no handler
\* method, and, when the 502 was written, the loop goes on in phase C.
C20_ParseErrorAfterLogin ==
    [][ (ReadsIn("C") /\ cmd'.t = "Parse") =>
          /\ Len(ev') = 2
          /\ ev'[2].k \in {"send", "send_err"}
          /\ ev'[2].n = CommandNotImplemented
          /\ ev'[2].r.msg = Some(cmd'.cmd.err)
          /\ cmd'.cmd.err # <<>>
          /\ ev'[1].s \in UnparsableLines => ev'[2].r.msg = Some(ParseErrorText(ev'[1].s))
          /\ io_factory' = io_factory
          /\ to_rename' = to_rename
          /\ \A i \in 1..Len(ev') : ev'[i].k \notin HandlerMethods
          /\ ev'[2].k = "send" => (pc' = "loop" /\ phase' = "C" /\ result' = "running")
      ]_vars

\* after RNFR, an unknown verb has been answered 502 with its message and the
\* session is still in the command loop with the source pending
C20_Witness ==
    /\ phase = "C" /\ pc = "loop"
    /\ cmd.t = "Parse"
    /\ Len(ev) = 2
    /\ ev[1].s = <<"N","O","O","P">>
    /\ ev[2].k = "send" /\ ev[2].n = CommandNotImplemented
    /\ ev[2].r.msg = Some(<<"unknown command: ", "N","O","O","P">>)
    /\ to_rename # None

(***************************************************************************)
(* C21                                                                     *)
(***************************************************************************)
\* what handler.passive_conn() answered in the step: "err", "v4", "v6", or ""
\* when the step did not call it
PassiveConnAnswer(evs) ==
    IF \E i \in 1..Len(evs) : evs[i].k = "passive_conn"
    THEN evs[CHOOSE i \in 1..Len(evs) : evs[i].k = "passive_conn"].o
    ELSE ""

SuccessfulPasv(evs) == Sent(evs, EnteringPassiveMode)

\* C22: a PASV whose 227 is written advertises the listener passive_conn() has
\* just bound, which is none of the earlier ones, and installs it as the passive
\* factory; no other step changes the passive factory; and the data stream a
\* LIST, RETR or STOR accepts comes from the installed factory, that is from the
\* listener of the most recent successful PASV.
C22_LatestPasvServesData ==
    [][ /\ (ReadsIn("C") /\ SuccessfulPasv(ev')) =>
             /\ IsCommand(cmd', "Pasv")
             /\ \A i \in 1..Len(ev') :
                  ev'[i].k = "send" => (ev'[i].n = EnteringPassiveMode /\ ev'[i].r.n = nread')
             /\ io_factory' = Some(nread')
             /\ io_factory' # io_factory
        /\ io_factory' # io_factory => (ReadsIn("C") /\ SuccessfulPasv(ev'))
        /\ (ReadsIn("C") /\ cmd'.t = "Command" /\ cmd'.cmd.name \in DataCommands) =>
             \A i \in 1..Len(ev') :
               ev'[i].k = "create_io" => (io_factory # None /\ ev'[i].n = io_factory[1])
      ]_vars

\* a data command accepted its stream from the listener of a PASV that was read
\* just before it and late enough in the session for another PASV to precede it
C22_Witness ==
    /\ AfterCommand /\ cmd.cmd.name \in DataCommands
    /\ nread = MaxReads
    /\ io_factory = Some(nread - 1)
    /\ \E i \in 1..Len(ev) :
         ev[i].k = "create_io" /\ ev[i].o = "some" /\ ev[i].n = nread - 1

(***************************************************************************)
(* C23                                                                     *)
(***************************************************************************)
ImplicitTls == security.tls /\ security.implicit

\* C23: construction writes nothing and reads nothing; with implicit TLS it runs
\* the handshake and either gives a session on Tls or, when the handshake
\* fails, gives no session at all; otherwise the session is on Plain.  The first
\* step of handle calls welcome() and writes the 220 built from it on that
\* transport, and only after a written greeting is a command read.
C23_StartupOrder ==
    [][ /\ pc = "build" =>
             /\ nread' = 0
             /\ \A i \in 1..Len(ev') : ev'[i].k \notin {"send", "send_err", "read"}
             /\ ImplicitTls =>
                  /\ Len(ev') = 1 /\ ev'[1].k = "accept_tls"
                  /\ ev'[1].o = "ok" => (pc' = "greet" /\ reader' = "Tls")
                  /\ ev'[1].o # "ok" => (pc' = "done" /\ result' = "BuildIo")
             /\ ~ImplicitTls => (pc' = "greet" /\ reader' = "Plain" /\ ev' = <<>>)
        /\ pc = "greet" =>
             /\ nread' = 0 /\ reader' = reader
             /\ Len(ev') = 2
             /\ ev'[1].k = "welcome"
             /\ ev'[2].k \in {"send", "send_err"}
             /\ ev'[2].n = ReadyForNewUser /\ ev'[2].r.variant = "ReadyForNewUser"
             /\ ev'[2].on = (IF ImplicitTls THEN "Tls" ELSE "Plain")
             /\ ev'[2].k = "send" => (pc' = "loop" /\ phase' = "A")
             /\ ev'[2].k = "send_err" => (pc' = "done" /\ result' = "Io")
        /\ nread' # nread => pc = "loop"
        /\ (pc' = "loop" /\ pc # "loop") => (pc = "greet" /\ Sent(ev', ReadyForNewUser))
        /\ (pc' = "greet") => pc = "build"
      ]_vars

\* an implicit-TLS session has sent its greeting over Tls and has read nothing
C23_Witness ==
    /\ ImplicitTls
    /\ pc = "loop" /\ phase = "A" /\ nread = 0
    /\ reader = "Tls"
    /\ Len(ev) = 2 /\ ev[1].k = "welcome"
    /\ ev[2].k = "send" /\ ev[2].n = ReadyForNewUser /\ ev[2].on = "Tls"

(***************************************************************************)
(* C24                                                                     *)
(***************************************************************************)
\* what a read holds when the stream ends before any byte of a command, or when
\* the line read is empty or blank
BlankBuffers == { <<>>, <<" ">> }

\* C24: in Phase A and in the command loop, a read that does not fail and gives
\* no byte before the end of the stream, or an empty or blank line, ends handle
\* with success; the step writes no response and calls no handler method.
C24_CleanDisconnect ==
    [][ ((ReadsIn("A") \/ ReadsIn("C")) /\ cmd'.t # "Io" /\ ev'[1].s \in BlankBuffers) =>
          /\ pc' = "done"
          /\ result' = "Ok"
          /\ ev'[1].k = "read"
          /\ Len(ev') = 1
      ]_vars

\* a logged-in session ended with success on a blank line
C24_Witness ==
    /\ phase = "C" /\ pc = "done" /\ result = "Ok"
    /\ user # None
    /\ Len(ev) = 1 /\ ev[1].k = "read" /\ ev[1].s = <<" ">>
    /\ cmd.t = "Disconnect"

(***************************************************************************)
(* C25                                                                     *)
(***************************************************************************)
\* C25: in the command loop a parsed AUTH, USER or PASS is answered with one
\* response, 503; the step calls no handler method and attempts no upgrade, and
\* it leaves the user, the transport, the passive factory and the pending rename
\* source as they were; when the 503 was written the loop goes on in Phase C.
C25_LoginCommandsAfterLogin ==
    [][ (ReadsIn("C") /\ cmd'.t = "Command" /\ cmd'.cmd.name \in {"Auth", "User", "Pass"}) =>
          /\ Len(ev') = 2
          /\ ev'[2].k \in {"send", "send_err"}
          /\ ev'[2].n = BadSequence
          /\ \A i \in 1..Len(ev') : ev'[i].k \notin HandlerMethods \cup {"upgrade_tls"}
          /\ authCalls' = authCalls
          /\ user' = user /\ user # None
          /\ reader' = reader
          /\ io_factory' = io_factory
          /\ to_rename' = to_rename
          /\ ev'[2].k = "send" => (pc' = "loop" /\ phase' = "C" /\ result' = "running")
      ]_vars

\* a session logged in over the plain stream of a TLS-capable server has answered
\* AUTH TLS with 503 and is still on the plain stream in the command loop
C25_Witness ==
    /\ security.tls
    /\ phase = "C" /\ pc = "loop"
    /\ IsCommand(cmd, "Auth") /\ ev[1].s = <<"A","U","T","H"," ","T","L","S">>
    /\ Sent(ev, BadSequence)
    /\ reader = "Plain"
    /\ user # None

(***************************************************************************)
(* C26                                                                     *)
(***************************************************************************)
\* the AUTH lines of the client whose type is not TLS
UnsupportedAuthLines ==
    { <<"A","U","T","H"," ","S","S","L">>, <<"A","U","T","H"," ","X","Y","Z">> }

\* C26: in Phase A of a session with an acceptor, an AUTH line whose type is
\* not TLS (SSL, or a word that is no type) is answered with one response, 502
\* "unsupported AUTH type"; no upgrade is attempted, the transport is left as it
\* was and, when the 502 was written, the loop goes on in Phase A.
C26_UnsupportedAuth ==
    [][ (ReadsIn("A") /\ acceptor /\ ev'[1].s \in UnsupportedAuthLines /\ cmd'.t # "Io") =>
          /\ Len(ev') = 2
          /\ ev'[2].k \in {"send", "send_err"}
          /\ ev'[2].n = CommandNotImplemented
          /\ ev'[2].r.msg = Some(<<"unsupported AUTH type">>)
          /\ reader' = reader
          /\ ev'[2].k = "send" => (pc' = "loop" /\ phase' = "A" /\ result' = "running")
      ]_vars

(***************************************************************************)
(* C27                                                                     *)
(***************************************************************************)
AcknowledgedCommands == {"Type", "Opts", "Utf8", "Pbsz"}

\* C27: a parsed TYPE, OPTS, UTF8 or PBSZ in the command loop, and a parsed OPTS
\* in Phase A, is answered with one response, 200; the step calls no handler
\* method and leaves the phase, the transport, the passive factory, the pending
\* rename source and the user as they were; when the 200 was written the loop
\* goes on.
C27_AcknowledgementsAreNoOps ==
    [][ ( /\ cmd'.t = "Command"
          /\ \/ ReadsIn("C") /\ cmd'.cmd.name \in AcknowledgedCommands
             \/ ReadsIn("A") /\ cmd'.cmd.name = "Opts" ) =>
          /\ Len(ev') = 2
          /\ ev'[2].k \in {"send", "send_err"}
          /\ ev'[2].n = Ok
          /\ \A i \in 1..Len(ev') : ev'[i].k \notin HandlerMethods \cup {"upgrade_tls"}
          /\ phase' = phase
          /\ reader' = reader
          /\ io_factory' = io_factory
          /\ to_rename' = to_rename
          /\ user' = user
          /\ ev'[2].k = "send" => (pc' = "loop" /\ result' = "running")
      ]_vars

\* TYPE I was answered 200 between RNFR and RNTO, with a passive factory
\* installed: both are still there
C27_Witness ==
    /\ phase = "C" /\ pc = "loop"
    /\ IsCommand(cmd, "Type")
    /\ Sent(ev, Ok)
    /\ io_factory # None /\ to_rename # None

(***************************************************************************)
(* C28                                                                     *)
(***************************************************************************)
\* the reads and writes of the control channel among events
ControlIO(evs) == { i \in 1..Len(evs) : evs[i].k \in {"read", "send", "send_err"} }

\* C28: a step that starts an upgrade on the plain stream has written 234 on it
\* just before and writes nothing after; it leaves the transport Tls, or
\* UpgradeBroken with handle returning an error.  From then on the transport is
\* never Plain: every read and write of a step that starts on Tls or
\* UpgradeBroken goes through that transport, and the step does not put Plain
\* back.
C28_NoCleartextWindow ==
    [][ /\ (reader = "Plain" /\ Has(ev', "upgrade_tls")) =>
             /\ Len(ev') = 3
             /\ ev'[1].k = "read" /\ ev'[1].on = "Plain"
             /\ ev'[2].k = "send" /\ ev'[2].n = AuthenticationSuccessful /\ ev'[2].on = "Plain"
             /\ ev'[3].k = "upgrade_tls"
             /\ reader' \in {"Tls", "UpgradeBroken"}
             /\ reader' = "UpgradeBroken" => (pc' = "done" /\ result' \notin {"running", "Ok"})
        /\ (pc = "loop" /\ reader # "Plain") =>
             /\ reader' # "Plain"
             /\ \A i \in ControlIO(ev') : ev'[i].on = reader /\ ev'[i].on # "Plain"
        /\ (pc = "loop" /\ reader = "Plain" /\ reader' # "Plain") => Has(ev', "upgrade_tls")
      ]_vars

\* after AUTH TLS on the plain stream the session has logged in: the command it
\* has just answered was read and answered over Tls
C28_Witness ==
    /\ security.tls /\ ~security.implicit
    /\ reader = "Tls"
    /\ phase = "C" /\ pc = "loop"
    /\ ev[1].k = "read" /\ ev[1].on = "Tls"
    /\ ev[Len(ev)].k = "send" /\ ev[Len(ev)].on = "Tls"

(***************************************************************************)
(* C29                                                                     *)
(***************************************************************************)
\* the upgrade_tls event of the step (the step holds one at most)
UpgradeEvent(evs) == evs[CHOOSE i \in 1..Len(evs) : evs[i].k = "upgrade_tls"]

\* C29: once the session is built its transport changes only in a step that
\* calls upgrade_tls on Plain: the call first puts UpgradeBroken and then, only
\* when the handshake succeeds, Tls.  Tls and UpgradeBroken are never left.  An
\* upgrade called on Tls passes through no other state, returns Ok and leaves
\* the loop in Phase A.
C29_TransportMovesForward ==
    [][ pc = "loop" =>
          /\ reader' # reader =>
               /\ reader = "Plain"
               /\ Has(ev', "upgrade_tls")
               /\ UpgradeEvent(ev').s \in {<<"UpgradeBroken">>, <<"UpgradeBroken", "Tls">>}
               /\ reader' = UpgradeEvent(ev').s[Len(UpgradeEvent(ev').s)]
               /\ reader' = "Tls" <=> UpgradeEvent(ev').o = "Ok"
          /\ reader = "Tls" => reader' = "Tls"
          /\ reader = "UpgradeBroken" => reader' = "UpgradeBroken"
          /\ (reader = "Tls" /\ Has(ev', "upgrade_tls")) =>
               /\ UpgradeEvent(ev').s = <<>>
               /\ UpgradeEvent(ev').o = "Ok"
               /\ pc' = "loop" /\ phase' = "A" /\ result' = "running"
      ]_vars

\* AUTH TLS on an implicit-TLS session: 234, an upgrade that does nothing, and
\* the session goes on in Phase A over Tls
C29_Witness ==
    /\ security.tls /\ security.implicit
    /\ phase = "A" /\ pc = "loop"
    /\ reader = "Tls"
    /\ Has(ev, "upgrade_tls")
    /\ UpgradeEvent(ev).s = <<>> /\ UpgradeEvent(ev).o = "Ok"
    /\ Sent(ev, AuthenticationSuccessful)

(***************************************************************************)
(* C30                                                                     *)
(***************************************************************************)
\* the step accepted a data stream
Accepted(evs) == \E i \in 1..Len(evs) : evs[i].k = "create_io" /\ evs[i].o = "some"

\* C30: a LIST, RETR or STOR that accepted a data stream has let go of it by the
\* end of its step, that is before the next command is read; and when a LIST
\* whose listing was written in full replies 226, the stream has been let go of
\* before that 226 is written.
C30_DataStreamClosed ==
    (AfterCommand /\ cmd.cmd.name \in DataCommands /\ Accepted(ev)) =>
      /\ Has(ev, "drop")
      /\ (cmd.cmd.name = "List" /\ ~ListingFailed(ev)) =>
           \A i \in 1..Len(ev) :
             (ev[i].k \in {"send", "send_err"} /\ ev[i].n = ClosingDataConnectionSuccessful) =>
               \E j \in 1..(i - 1) : ev[j].k = "drop"

(***************************************************************************)
(* C31                                                                     *)
(***************************************************************************)
\* C31: a line written with its verb in any letter case and with any amount of
\* whitespace before the verb, between verb and argument and after the argument
\* parses to the Command its plain form parses to.
C31_ParseInsensitive ==
    pc = "parsed" =>
      /\ cmd.t = "Command"
      /\ cmd.cmd = Command_from_str(ev[1].s)

(***************************************************************************)
(* C32                                                                     *)
(***************************************************************************)
DigitValue(c) == CHOOSE d \in 0..9 : Digit[d + 1] = c

\* the number a sequence of decimal digits writes
RECURSIVE from_digits(_)
from_digits(ds) ==
    IF ds = <<>> THEN 0
    ELSE from_digits(SubSeq(ds, 1, Len(ds) - 1)) * 10 + DigitValue(ds[Len(ds)])

\* the index of the first comma of bs (0: none)
first_comma(bs) ==
    IF \E i \in 1..Len(bs) : bs[i] = ","
    THEN CHOOSE i \in 1..Len(bs) : bs[i] = "," /\ \A j \in 1..(i - 1) : bs[j] # ","
    ELSE 0

RECURSIVE split_commas(_)
RECURSIVE split_at(_, _)
\* the fields of bytes between commas
split_commas(bs) == split_at(bs, first_comma(bs))

split_at(bs, i) ==
    IF i = 0 THEN <<bs>>
    ELSE <<SubSeq(bs, 1, i - 1)>> \o split_commas(SubSeq(bs, i + 1, Len(bs)))

IsDecimal(ds) ==
    /\ ds # <<>>
    /\ \A i \in 1..Len(ds) : \E d \in 1..10 : Digit[d] = ds[i]
    /\ Len(ds) > 1 => ds[1] # "0"

\* the numbers the fields write, <<>> unless there are six decimal fields
SixNumbers(fields) ==
    IF Len(fields) = 6 /\ \A i \in 1..6 : IsDecimal(fields[i])
    THEN [i \in 1..6 |-> from_digits(fields[i])]
    ELSE <<>>

\* the six numbers of a 227 reply "227 (h1,h2,h3,h4,p1,p2)CRLF", <<>> when the
\* bytes do not have that form
PassiveFields(bs) ==
    IF /\ Len(bs) > 8
       /\ SubSeq(bs, 1, 5) = <<"2", "2", "7", " ", "(">>
       /\ SubSeq(bs, Len(bs) - 2, Len(bs)) = <<")", "\r", "\n">>
    THEN SixNumbers(split_commas(SubSeq(bs, 6, Len(bs) - 3)))
    ELSE <<>>

\* the numbers h1..h4, p1, p2 are those of address ip and port
EncodesAddress(numbers, ip, port) ==
    /\ Len(numbers) = 6
    /\ SubSeq(numbers, 1, 4) = ip
    /\ numbers[5] \in 0..255
    /\ numbers[6] \in 0..255
    /\ numbers[5] * 256 + numbers[6] = port

\* C32: the bytes of a 227 reply for a listener on an IPv4 address and a 16-bit
\* port read "227 (h1,h2,h3,h4,p1,p2)" and CRLF, where h1..h4 are the octets of
\* the address and p1, p2 are two numbers of 0..255 with p1 * 256 + p2 = port.
C32_PortEncoding ==
    pc = "encoded" => EncodesAddress(PassiveFields(ev[2].s), ev[1].s, ev[1].n)

\* port 65535 on the loopback address is written (255,255)
C32_Witness ==
    /\ pc = "encoded"
    /\ ev[1].r.variant = "EnteringPassiveMode"
    /\ ev[1].n = 65535
    /\ ev[2].s = <<"2", "2", "7", " ", "(", "1", "2", "7", ",", "0", ",", "0", ",", "1", ",",
                   "2", "5", "5", ",", "2", "5", "5", ")", "\r", "\n">>

(***************************************************************************)
(* C33                                                                     *)
(***************************************************************************)
IsDigit(c) == \E d \in 1..10 : Digit[d] = c

\* bs is a three-digit number, one space, anything, and CRLF
FramedWithCode(bs, c) ==
    /\ Len(bs) >= 6
    /\ \A i \in 1..3 : IsDigit(bs[i])
    /\ bs[1] # "0"
    /\ from_digits(SubSeq(bs, 1, 3)) = c
    /\ bs[4] = " "
    /\ SubSeq(bs, Len(bs) - 1, Len(bs)) = <<"\r", "\n">>

\* C33: the bytes of every response, of whichever variant and with whichever
\* code of the table, are the three digits of the response's code, one space,
\* the text of the variant, and CRLF at the end; the bytes of a Simple without
\* a message are exactly the code, one space and CRLF.
C33_EncodingFramed ==
    pc = "encoded" =>
      /\ FramedWithCode(ev[2].s, code(ev[1].r))
      /\ (ev[1].r.variant = "Simple" /\ ev[1].r.msg = None) =>
           (Len(ev[2].s) = 6 /\ ev[1].r.c \in SimpleReturnCodes)

\* 502 without a message is written "502 " and CRLF
C33_Witness ==
    /\ pc = "encoded"
    /\ ev[1].r.variant = "Simple" /\ ev[1].r.msg = None
    /\ ev[2].s = <<"5", "0", "2", " ", "\r", "\n">>

(***************************************************************************)
(* C34                                                                     *)
(***************************************************************************)
FeatHead == <<"2", "1", "1", " ", "Features:", "\r", "\n">>
FeatTail == <<"2", "1", "1", " End", "\r", "\n">>

\* bs is FeatHead, n lines of a space, one token and CRLF, and FeatTail
FeatFramed(bs, n) ==
    /\ Len(bs) = Len(FeatHead) + 4 * n + Len(FeatTail)
    /\ SubSeq(bs, 1, Len(FeatHead)) = FeatHead
    /\ SubSeq(bs, Len(bs) - Len(FeatTail) + 1, Len(bs)) = FeatTail
    /\ \A i \in 1..n :
         /\ bs[Len(FeatHead) + 4 * (i - 1) + 1] = " "
         /\ bs[Len(FeatHead) + 4 * (i - 1) + 3] = "\r"
         /\ bs[Len(FeatHead) + 4 * (i - 1) + 4] = "\n"

\* the token of line i of the features
FeatToken(bs, i) == bs[Len(FeatHead) + 4 * (i - 1) + 2]

\* bs advertises the features of wanted, each on one line and once
Advertises(bs, wanted) ==
    /\ FeatFramed(bs, Cardinality(wanted))
    /\ { FeatToken(bs, i) : i \in 1..Cardinality(wanted) } = wanted

\* C34: the bytes of the reply to FEAT are the line "211 Features:", then one
\* line " token" for each of UTF8, SIZE, MDTM, MFMT, MLST, MLSD and of the
\* features the handler returned, each token once, then the line "211 End".
C34_FeatReply ==
    pc = "encoded" =>
      Advertises(ev[2].s, ev[1].r.fs \cup {"UTF8", "SIZE", "MDTM", "MFMT", "MLST", "MLSD"})

\* the handler returned UTF8 and REST: seven lines, UTF8 once
C34_Witness ==
    /\ pc = "encoded"
    /\ ev[1].r.fs = {"UTF8", "REST"}
    /\ Len(ev[2].t) = 7
    /\ Len(ev[2].s) = Len(FeatHead) + 28 + Len(FeatTail)
    /\ FeatToken(ev[2].s, 1) = "REST"

(***************************************************************************)
(* C35                                                                     *)
(***************************************************************************)
\* the handler methods that reach the storage or open the data channel
StorageMethods ==
    {"cwd", "set_cwd", "ls", "rename", "passive_conn", "handler.read", "handler.write",
     "os_info", "features"}

\* C35: the command loop is entered only by the step in which authenticate
\* returned true; only steps of the command loop call cwd, set_cwd, ls, rename,
\* passive_conn, read, write, os_info or features, accept a data stream, or
\* leave a passive factory installed.
C35_NothingBeforeLogin ==
    [][ /\ (phase' = "C" /\ phase # "C") =>
             \E i \in 1..Len(ev') : ev'[i].k = "authenticate" /\ ev'[i].o = "true"
        /\ (\E i \in 1..Len(ev') : ev'[i].k \in StorageMethods \cup {"create_io"}) =>
             phase = "C"
        /\ io_factory' # None => phase = "C"
      ]_vars

\* a logged-in session has bound a passive listener
C35_Witness ==
    /\ phase = "C"
    /\ authCalls = 1
    /\ Has(ev, "passive_conn")
    /\ io_factory # None

(***************************************************************************)
(* C36                                                                     *)
(***************************************************************************)
\* the authenticate calls of a step
AuthenticateCalls(evs) == { i \in 1..Len(evs) : evs[i].k = "authenticate" }

\* C36: authenticate is called once at most in a session; the call is made by
\* the step that reads a PASS right after the step that read the accepted USER,
\* with the name of that USER and the password of that PASS; when it does not
\* return true, handle returns and nothing more is read.
C36_OneLoginAttempt ==
    [][ /\ authCalls' <= 1
        /\ authCalls' = authCalls + Cardinality(AuthenticateCalls(ev'))
        /\ AuthenticateCalls(ev') # {} =>
             /\ ReadsIn("B")
             /\ IsCommand(cmd, "User") /\ Sent(ev, NeedPassword)
             /\ IsCommand(cmd', "Pass")
             /\ AuthenticateCalls(ev') = {2}
             /\ ev'[2].s = cmd.cmd.s
             /\ ev'[2].t = cmd'.cmd.s
             /\ ev'[2].o # "true" => (pc' = "done" /\ result' # "running")
      ]_vars

\* authenticate refused al / pw: 530 and handle has returned
C36_Witness ==
    /\ pc = "done"
    /\ authCalls = 1
    /\ AuthenticateCalls(ev) = {2}
    /\ ev[2].s = <<"a", "l">> /\ ev[2].t = <<"p", "w">> /\ ev[2].o = "false"
    /\ Sent(ev, NotLoggedIn)

(***************************************************************************)
(* C37                                                                     *)
(***************************************************************************)
\* C37: when the steps that can be taken are taken, a session whose client has
\* closed the control connection (with reads left within MaxReads) returns from
\* handle, in whichever phase the end of the stream is met.
C37_TerminatesAfterEof ==
    (closed /\ nread < MaxReads) ~> (pc = "done" /\ result # "running")

\* the stream ended where the PASS was awaited, and handle has returned
C37_Witness ==
    /\ closed
    /\ phase = "B"
    /\ cmd.t = "Disconnect"
    /\ pc = "done" /\ result # "running"

====
